---- MODULE Spec2Model ----
(***************************************************************************)
(* TradeQuest: the trading-performance analytics of the dashboard page     *)
(* (src/app/dashboard/page.tsx) and of the dashboard analytics test        *)
(* module (src/unnamed/part_009).                                          *)
(*                                                                         *)
(* Numbers.  Every JavaScript number is a binary floating-point value and  *)
(* every arithmetic operation rounds its exact result to nearest, ties to  *)
(* even.  A number is modelled as <<m, e>>, standing for m * 2^e, with m   *)
(* odd (or <<0, 0>>), and the operations round exactly as IEEE 754 does,   *)
(* to a significand of Precision bits.  IEEE double has 53 bits; the model *)
(* keeps the rounding and narrows the significand so that the arithmetic   *)
(* stays inside TLC's integers.  The exponent is unbounded: overflow to    *)
(* Infinity and underflow to 0 are not modelled.                           *)
(***************************************************************************)
EXTENDS Integers, Sequences, FiniteSets, TLC

\* Significand width of the number type (53 in IEEE 754 double).
Precision == 11

\* Longest trade list that is enumerated.
MaxTrades == 3

\* Most words in a title, and in a text given to analyzeSentiment.
MaxTitleWords == 2

\* Most words in a summary.
MaxSummaryWords == 1

\* Most rows ever inserted into table trades by the journal.
MaxJournalTrades == 2

\* Most rows inserted in the runs that enumerate every value of the forms.
MaxFormTrades == 1

\* Most loadTrades calls of one dashboard session.
MaxLoads == 3

\* Most TeamRoomPage instances mounted.
MaxMounts == 2

\* Most initializeTeamRoom calls.
MaxInits == 3

(***************************************************************************)
(* Floating-point arithmetic                                               *)
(***************************************************************************)
Zero == <<0, 0>>

Abs(i) == IF i < 0 THEN -i ELSE i

RECURSIVE Pow2(_)
Pow2(n) == IF n <= 0 THEN 1 ELSE 2 * Pow2(n - 1)

\* Number of binary digits of n > 0.
RECURSIVE BitLen(_)
BitLen(n) == IF n <= 1 THEN 1 ELSE 1 + BitLen(n \div 2)

\* The unique representation <<m, e>> with m odd of the value m * 2^e.
RECURSIVE Canon(_, _)
Canon(m, e) ==
    IF m = 0 THEN Zero
    ELSE IF m % 2 = 0 THEN Canon(m \div 2, e + 1)
    ELSE <<m, e>>

\* A significand of full width lies in MinSignificand .. MaxSignificand - 1.
MinSignificand == Pow2(Precision - 1)
MaxSignificand == Pow2(Precision)

\* (a / d) * 2^e for a > 0, d > 0, rounded to Precision bits, ties to even.
RECURSIVE RoundPos(_, _, _)
RoundPos(a, d, e) ==
    IF a < MinSignificand * d THEN RoundPos(2 * a, d, e - 1)
    ELSE IF a >= MaxSignificand * d THEN RoundPos(a, 2 * d, e + 1)
    ELSE LET q == a \div d
             r == a % d
             up == (2 * r > d) \/ (2 * r = d /\ q % 2 = 1)
         IN  Canon(IF up THEN q + 1 ELSE q, e)

Neg(x) == <<-x[1], x[2]>>

\* (n / d) * 2^e for any integer n and d > 0, rounded.
Round(n, d, e) ==
    IF n = 0 THEN Zero
    ELSE IF n > 0 THEN RoundPos(n, d, e)
    ELSE Neg(RoundPos(-n, d, e))

\* Number literal: the decimal n / d as the number type stores it.
Num(n, d) == Round(n, d, 0)

\* Position of the leading binary digit of x # 0.
Msb(x) == x[2] + BitLen(Abs(x[1])) - 1

Min(a, b) == IF a <= b THEN a ELSE b

\* x + y.  An operand below a quarter of the other's last place cannot
\* change the rounded sum.
FAdd(x, y) ==
    IF x = Zero THEN y
    ELSE IF y = Zero THEN x
    ELSE IF Msb(x) - Msb(y) > Precision + 1 THEN x
    ELSE IF Msb(y) - Msb(x) > Precision + 1 THEN y
    ELSE LET e == Min(x[2], y[2])
         IN  Round(x[1] * Pow2(x[2] - e) + y[1] * Pow2(y[2] - e), 1, e)

FSub(x, y) == FAdd(x, Neg(y))

FMul(x, y) == Round(x[1] * y[1], 1, x[2] + y[2])

\* x / y for y # 0.
FDiv(x, y) ==
    Round(IF y[1] < 0 THEN -x[1] ELSE x[1], Abs(y[1]), x[2] - y[2])

FAbs(x) == <<Abs(x[1]), x[2]>>

Sign(x) == IF x[1] > 0 THEN 1 ELSE IF x[1] < 0 THEN -1 ELSE 0

\* x < y, exactly.
FLt(x, y) ==
    IF Sign(x) # Sign(y) THEN Sign(x) < Sign(y)
    ELSE IF Sign(x) = 0 THEN FALSE
    ELSE IF Msb(x) # Msb(y)
         THEN IF Sign(x) > 0 THEN Msb(x) < Msb(y) ELSE Msb(x) > Msb(y)
    ELSE LET e == Min(x[2], y[2])
         IN  x[1] * Pow2(x[2] - e) < y[1] * Pow2(y[2] - e)

FGt(x, y) == FLt(y, x)

\* Largest s with s * s <= n, searched between lo and hi.
RECURSIVE ISqrtIn(_, _, _)
ISqrtIn(n, lo, hi) ==
    IF lo >= hi THEN lo
    ELSE LET mid == (lo + hi + 1) \div 2
         IN  IF mid * mid <= n THEN ISqrtIn(n, mid, hi)
             ELSE ISqrtIn(n, lo, mid - 1)

\* m * 4^k for the least k that gives at least 2 * Precision + 1 digits.
RECURSIVE Widen(_, _)
Widen(m, k) ==
    IF m >= MaxSignificand * MaxSignificand THEN <<m, k>>
    ELSE Widen(4 * m, k + 1)

\* Math.sqrt(x) for x >= 0, correctly rounded.
FSqrt(x) ==
    IF x = Zero THEN Zero
    ELSE LET m0 == IF x[2] % 2 = 0 THEN x[1] ELSE 2 * x[1]
             e0 == IF x[2] % 2 = 0 THEN x[2] ELSE x[2] - 1
             w  == Widen(m0, 0)
             s  == ISqrtIn(w[1], 0, 4 * MaxSignificand)
             \* sqrt lies in [s, s + 1); s + 1/2 rounds as any inexact root
             n2 == IF s * s = w[1] THEN 2 * s ELSE 2 * s + 1
         IN  Round(n2, 2, (e0 \div 2) - w[2])

(***************************************************************************)
(* Trades and the metrics computation                                      *)
(***************************************************************************)
\* pnl_amount of a trade that is not completed (SQL NULL, JavaScript null).
Null == <<>>

\* Result of calculateMetrics on an empty list: setMetrics(null).
NullMetrics == <<>>

\* Array.prototype.filter(trade => trade.pnl_amount !== null)
completedTrades(ts) == SelectSeq(ts, LAMBDA t : t.pnl_amount # Null)

\* trade.pnl_amount || 0
OrZero(v) == IF v = Null THEN Zero ELSE v

\* map(trade => trade.pnl_amount || 0)
pnlAmounts(ts) == [i \in 1..Len(ts) |-> OrZero(ts[i].pnl_amount)]

\* reduce((sum, ret) => sum + ret, 0): left fold of rounded additions
RECURSIVE SumFrom(_, _, _)
SumFrom(acc, xs, i) ==
    IF i > Len(xs) THEN acc ELSE SumFrom(FAdd(acc, xs[i]), xs, i + 1)

Sum(xs) == SumFrom(Zero, xs, 1)

\* Math.max(...xs) and Math.min(...xs) of a non-empty array
RECURSIVE MaxFrom(_, _, _)
MaxFrom(acc, xs, i) ==
    IF i > Len(xs) THEN acc
    ELSE MaxFrom(IF FGt(xs[i], acc) THEN xs[i] ELSE acc, xs, i + 1)

RECURSIVE MinFrom(_, _, _)
MinFrom(acc, xs, i) ==
    IF i > Len(xs) THEN acc
    ELSE MinFrom(IF FLt(xs[i], acc) THEN xs[i] ELSE acc, xs, i + 1)

MathMax(xs) == MaxFrom(xs[1], xs, 2)
MathMin(xs) == MinFrom(xs[1], xs, 2)

\* Variant of winningOf that takes a breakeven trade for a win (>= for >).
winningOfBreakeven(ts) ==
    SelectSeq(ts, LAMBDA t : ~FLt(OrZero(t.pnl_amount), Zero))

\* completedTrades.filter(trade => (trade.pnl_amount || 0) > 0)
winningOf(ts) == SelectSeq(ts, LAMBDA t : FGt(OrZero(t.pnl_amount), Zero))

\* completedTrades.filter(trade => (trade.pnl_amount || 0) < 0)
losingOf(ts) == SelectSeq(ts, LAMBDA t : FLt(OrZero(t.pnl_amount), Zero))

\* Variant of profitFactorOf without the sentinel for a loss-free record.
profitFactorNoSentinel(totalWins, totalLosses) ==
    IF FGt(totalLosses, Zero) THEN FDiv(totalWins, totalLosses) ELSE Zero

\* Variant of profitFactorOf that gives the sentinel whenever nothing is lost.
profitFactorAlwaysSentinel(totalWins, totalLosses) ==
    IF FGt(totalLosses, Zero) THEN FDiv(totalWins, totalLosses)
    ELSE Num(999, 1)

\* totalLosses > 0 ? totalWins / totalLosses : totalWins > 0 ? 999 : 0
profitFactorOf(totalWins, totalLosses) ==
    IF FGt(totalLosses, Zero) THEN FDiv(totalWins, totalLosses)
    ELSE IF FGt(totalWins, Zero) THEN Num(999, 1)
    ELSE Zero

\* Variant of winRateOf that leaves the rate a fraction of 1.
winRateFraction(wins, total) == FDiv(Num(wins, 1), Num(total, 1))

\* (winningTrades.length / totalTrades) * 100
winRateOf(wins, total) == FMul(FDiv(Num(wins, 1), Num(total, 1)), Num(100, 1))

\* reduce((sum, ret) => sum + Math.pow(ret - meanReturn, 2), 0)
RECURSIVE SquaresFrom(_, _, _, _)
SquaresFrom(acc, xs, mean, i) ==
    IF i > Len(xs) THEN acc
    ELSE LET dev == FSub(xs[i], mean)
         IN  SquaresFrom(FAdd(acc, FMul(dev, dev)), xs, mean, i + 1)

\* The Sharpe ratio block of calculateMetrics, for the completed trades.
sharpeRatioOf(completed) ==
    IF Len(completed) > 1
    THEN LET returns == pnlAmounts(completed)
             meanReturn == FDiv(Sum(returns), Num(Len(returns), 1))
             variance == FDiv(SquaresFrom(Zero, returns, meanReturn, 1),
                              Num(Len(returns) - 1, 1))
             standardDeviation == FSqrt(variance)
         IN  IF FGt(standardDeviation, Zero)
             THEN FMul(FDiv(meanReturn, standardDeviation),
                       FSqrt(Num(252, 1)))
             ELSE Zero
    ELSE Zero

\* The all-zero struct set when no trade is completed.
ZeroMetrics ==
    [totalTrades |-> 0, winningTrades |-> 0, losingTrades |-> 0,
     winRate |-> Zero, totalPnL |-> Zero, averagePnL |-> Zero,
     bestTrade |-> Zero, worstTrade |-> Zero, profitFactor |-> Zero,
     averageWin |-> Zero, averageLoss |-> Zero, sharpeRatio |-> Zero]

\* calculateMetrics of the dashboard page: the value handed to setMetrics.
calculateMetrics(ts) ==
    IF Len(ts) = 0 THEN NullMetrics
    ELSE
    LET completed == completedTrades(ts)
        totalTrades == Len(completed)
    IN  IF totalTrades = 0 THEN ZeroMetrics
        ELSE
        LET winningTrades == winningOf(completed)
            losingTrades == losingOf(completed)
            totalPnL == Sum(pnlAmounts(completed))
            totalWins == Sum(pnlAmounts(winningTrades))
            totalLosses == FAbs(Sum(pnlAmounts(losingTrades)))
        IN  [totalTrades |-> totalTrades,
             winningTrades |-> Len(winningTrades),
             losingTrades |-> Len(losingTrades),
             winRate |-> winRateOf(Len(winningTrades), totalTrades),
             totalPnL |-> totalPnL,
             averagePnL |-> FDiv(totalPnL, Num(totalTrades, 1)),
             bestTrade |-> MathMax(pnlAmounts(completed)),
             worstTrade |-> MathMin(pnlAmounts(completed)),
             profitFactor |-> profitFactorOf(totalWins, totalLosses),
             averageWin |-> IF Len(winningTrades) > 0
                            THEN FDiv(totalWins, Num(Len(winningTrades), 1))
                            ELSE Zero,
             averageLoss |-> IF Len(losingTrades) > 0
                             THEN FDiv(totalLosses, Num(Len(losingTrades), 1))
                             ELSE Zero,
             sharpeRatio |-> sharpeRatioOf(completed)]

\* The all-zero struct of calculateDashboardMetrics (nine fields).
ZeroDashboardMetrics ==
    [totalTrades |-> 0, winningTrades |-> 0, losingTrades |-> 0,
     winRate |-> Zero, totalPnL |-> Zero, averagePnL |-> Zero,
     bestTrade |-> Zero, worstTrade |-> Zero, profitFactor |-> Zero]

\* calculateDashboardMetrics of the dashboard analytics test module.
calculateDashboardMetrics(ts) ==
    LET completed == completedTrades(ts)
        totalTrades == Len(completed)
    IN  IF totalTrades = 0 THEN ZeroDashboardMetrics
        ELSE
        LET winningTrades == winningOf(completed)
            losingTrades == losingOf(completed)
            totalPnL == Sum(pnlAmounts(completed))
            totalWins == Sum(pnlAmounts(winningTrades))
            totalLosses == FAbs(Sum(pnlAmounts(losingTrades)))
        IN  [totalTrades |-> totalTrades,
             winningTrades |-> Len(winningTrades),
             losingTrades |-> Len(losingTrades),
             winRate |-> winRateOf(Len(winningTrades), totalTrades),
             totalPnL |-> totalPnL,
             averagePnL |-> FDiv(totalPnL, Num(totalTrades, 1)),
             bestTrade |-> MathMax(pnlAmounts(completed)),
             worstTrade |-> MathMin(pnlAmounts(completed)),
             profitFactor |-> profitFactorOf(totalWins, totalLosses)]

(***************************************************************************)
(* Dates, the equity curve and the daily P&L                               *)
(*                                                                         *)
(* A trade's date is a calendar day, numbered in days.  Instants (Date     *)
(* objects) are numbered in ticks, TicksPerDay to the day, so that the     *)
(* clock can stand inside a day; the time zone offset is taken to be 0.    *)
(***************************************************************************)
TicksPerDay == 2

\* new Date(trade.date): midnight of that day
ToTime(day) == day * TicksPerDay

\* date.toISOString().split('T')[0]
ToDay(time) == time \div TicksPerDay

\* Days from the same month, day and hour of the year 2000 to the clock.
DaysSince2000 == 25 * 365

\* The day the clock stands in.
NowDay == DaysSince2000 + 100

Timeframes == {"7d", "30d", "90d", "all"}

\* cutoffDate of generateChartData: the switch over timeframe
cutoffDate(tf, clock) ==
    CASE tf = "7d"  -> clock - 7 * TicksPerDay
      [] tf = "30d" -> clock - 30 * TicksPerDay
      [] tf = "90d" -> clock - 90 * TicksPerDay
      [] tf = "all" -> clock - DaysSince2000 * TicksPerDay

\* Variant of filteredTrades that ignores the cutoff.
filteredTradesNoCutoff(ts, cutoff) == ts

\* trades.filter(trade => new Date(trade.date) >= cutoffDate)
filteredTrades(ts, cutoff) ==
    SelectSeq(ts, LAMBDA t : ToTime(t.date) >= cutoff)

\* Variant of startPoint dated one day after the first trade.
startPointDayAfter(filtered, initialBalance, cutoff) ==
    [date |-> IF Len(filtered) > 0
              THEN ToDay(ToTime(filtered[1].date) + TicksPerDay)
              ELSE ToDay(cutoff),
     balance |-> initialBalance,
     pnl |-> Null,
     cumulativePnL |-> Zero]

\* The synthetic first point of the curve.
startPoint(filtered, initialBalance, cutoff) ==
    [date |-> IF Len(filtered) > 0
              THEN ToDay(ToTime(filtered[1].date) - TicksPerDay)
              ELSE ToDay(cutoff),
     balance |-> initialBalance,
     pnl |-> Null,
     cumulativePnL |-> Zero]

\* Variant of tradePoints that emits a point for every trade, a trade
\* without pnl_amount counting as 0.
RECURSIVE tradePointsEveryTrade(_, _, _, _, _)
tradePointsEveryTrade(data, filtered, initialBalance, cumulativePnL, i) ==
    IF i > Len(filtered) THEN data
    ELSE LET cum == FAdd(cumulativePnL, OrZero(filtered[i].pnl_amount))
         IN  tradePointsEveryTrade(Append(data,
                                [date |-> filtered[i].date,
                                 balance |-> FAdd(initialBalance, cum),
                                 pnl |-> OrZero(filtered[i].pnl_amount),
                                 cumulativePnL |-> cum]),
                         filtered, initialBalance, cum, i + 1)

\* Variant of tradePoints whose balance adds the trade's own pnl only.
RECURSIVE tradePointsOwnPnl(_, _, _, _, _)
tradePointsOwnPnl(data, filtered, initialBalance, cumulativePnL, i) ==
    IF i > Len(filtered) THEN data
    ELSE IF filtered[i].pnl_amount # Null
    THEN LET cum == FAdd(cumulativePnL, filtered[i].pnl_amount)
         IN  tradePointsOwnPnl(Append(data,
                                [date |-> filtered[i].date,
                                 balance |-> FAdd(initialBalance,
                                                  filtered[i].pnl_amount),
                                 pnl |-> filtered[i].pnl_amount,
                                 cumulativePnL |-> cum]),
                         filtered, initialBalance, cum, i + 1)
    ELSE tradePointsOwnPnl(data, filtered, initialBalance, cumulativePnL, i + 1)

\* filteredTrades.forEach(...): one point per trade with a pnl_amount
RECURSIVE tradePoints(_, _, _, _, _)
tradePoints(data, filtered, initialBalance, cumulativePnL, i) ==
    IF i > Len(filtered) THEN data
    ELSE IF filtered[i].pnl_amount # Null
    THEN LET cum == FAdd(cumulativePnL, filtered[i].pnl_amount)
         IN  tradePoints(Append(data,
                                [date |-> filtered[i].date,
                                 balance |-> FAdd(initialBalance, cum),
                                 pnl |-> filtered[i].pnl_amount,
                                 cumulativePnL |-> cum]),
                         filtered, initialBalance, cum, i + 1)
    ELSE tradePoints(data, filtered, initialBalance, cumulativePnL, i + 1)

\* accounts.find(acc => acc.id === selectedAccount): its index, 0 if none
RECURSIVE findAccount(_, _, _)
findAccount(accs, id, i) ==
    IF i > Len(accs) THEN 0
    ELSE IF accs[i].id = id THEN i
    ELSE findAccount(accs, id, i + 1)

\* generateChartData: the value handed to setChartData; old is the chart
\* that stays when the selected account is not among the accounts.
generateChartData(ts, accs, selected, tf, clock, old) ==
    IF Len(ts) = 0 \/ selected = "" THEN <<>>
    ELSE IF findAccount(accs, selected, 1) = 0 THEN old
    ELSE LET initialBalance == accs[findAccount(accs, selected, 1)].initial_balance
             cutoff == cutoffDate(tf, clock)
             filtered == filteredTrades(ts, cutoff)
         IN  tradePoints(<<startPoint(filtered, initialBalance, cutoff)>>,
                         filtered, initialBalance, Zero, 1)

\* Index of the entry of dailyTotals with this key, 0 if there is none.
RECURSIVE findDate(_, _, _)
findDate(totals, date, i) ==
    IF i > Len(totals) THEN 0
    ELSE IF totals[i].date = date THEN i
    ELSE findDate(totals, date, i + 1)

\* Variant of dailyTotalsFrom that stores the trade's amount as the total of
\* its date instead of adding it.
RECURSIVE dailyTotalsOverwriting(_, _, _)
dailyTotalsOverwriting(totals, ts, i) ==
    IF i > Len(ts) THEN totals
    ELSE IF ts[i].pnl_amount # Null
    THEN LET k == findDate(totals, ts[i].date, 1)
             created == IF k = 0
                        THEN Append(totals, [date |-> ts[i].date, pnl |-> Zero])
                        ELSE totals
             j == findDate(created, ts[i].date, 1)
         IN  dailyTotalsOverwriting(
                 [created EXCEPT ![j].pnl = ts[i].pnl_amount], ts, i + 1)
    ELSE dailyTotalsOverwriting(totals, ts, i + 1)

\* trades.forEach(...) over dailyTotals, an object that keeps its keys in
\* insertion order, as Object.entries lists them.
RECURSIVE dailyTotalsFrom(_, _, _)
dailyTotalsFrom(totals, ts, i) ==
    IF i > Len(ts) THEN totals
    ELSE IF ts[i].pnl_amount # Null
    THEN LET k == findDate(totals, ts[i].date, 1)
             created == IF k = 0 \/ totals[k].pnl = Zero
                        THEN IF k = 0
                             THEN Append(totals, [date |-> ts[i].date, pnl |-> Zero])
                             ELSE [totals EXCEPT ![k].pnl = Zero]
                        ELSE totals
             j == findDate(created, ts[i].date, 1)
         IN  dailyTotalsFrom(
                 [created EXCEPT ![j].pnl = FAdd(created[j].pnl, ts[i].pnl_amount)],
                 ts, i + 1)
    ELSE dailyTotalsFrom(totals, ts, i + 1)

\* calculateDailyPnL: the value handed to setDailyPnL
calculateDailyPnL(ts) ==
    IF Len(ts) = 0 THEN <<>> ELSE dailyTotalsFrom(<<>>, ts, 1)

\* getDayTrades of renderCalendar, for the day with this date
getDayTrades(ts, date) ==
    Len(SelectSeq(ts, LAMBDA t : t.date = date /\ t.pnl_amount # Null))

(***************************************************************************)
(* Sentiment scoring.  A character is a string of length one and a text a  *)
(* sequence of characters.                                                 *)
(***************************************************************************)
Uppercase ==
    {"A", "B", "C", "D", "E", "F", "G", "H", "I", "J", "K", "L", "M", "N",
     "O", "P", "Q", "R", "S", "T", "U", "V", "W", "X", "Y", "Z"}

Lowercase ==
    {"a", "b", "c", "d", "e", "f", "g", "h", "i", "j", "k", "l", "m", "n",
     "o", "p", "q", "r", "s", "t", "u", "v", "w", "x", "y", "z"}

Digits == {"0", "1", "2", "3", "4", "5", "6", "7", "8", "9"}

\* \w of the regular expressions
WordCharacters == Uppercase \cup Lowercase \cup Digits \cup {"_"}

\* \s of the regular expressions
Whitespace == {" ", "\t", "\n"}

\* The characters that [^\w\s.,!?-] does not match.
KeptCharacters == WordCharacters \cup Whitespace \cup {".", ",", "!", "?", "-"}

\* text.replace(/[^\w\s.,!?-]/g, ' ')
replaceSpecial(text) ==
    [i \in 1..Len(text) |-> IF text[i] \in KeptCharacters THEN text[i] ELSE " "]

\* .replace(/\s+/g, ' '): every run of whitespace becomes one space
RECURSIVE normalizeWhitespace(_, _, _)
normalizeWhitespace(out, text, i) ==
    IF i > Len(text) THEN out
    ELSE IF text[i] \in Whitespace
    THEN IF i > 1 /\ text[i - 1] \in Whitespace
         THEN normalizeWhitespace(out, text, i + 1)
         ELSE normalizeWhitespace(Append(out, " "), text, i + 1)
    ELSE normalizeWhitespace(Append(out, text[i]), text, i + 1)

RECURSIVE trimStart(_)
trimStart(text) ==
    IF text # <<>> /\ Head(text) \in Whitespace
    THEN trimStart(Tail(text)) ELSE text

RECURSIVE trimEnd(_)
trimEnd(text) ==
    IF text # <<>> /\ text[Len(text)] \in Whitespace
    THEN trimEnd(SubSeq(text, 1, Len(text) - 1)) ELSE text

\* .trim()
trim(text) == trimEnd(trimStart(text))

\* Variant of cleanTextOf without the final trim().
cleanTextUntrimmed(text) == normalizeWhitespace(<<>>, replaceSpecial(text), 1)

\* const cleanText of analyzeSentiment
cleanTextOf(text) == trim(normalizeWhitespace(<<>>, replaceSpecial(text), 1))

\* The lower-case letter of every upper-case letter.
LowerOf ==
    ("A" :> "a") @@
    ("B" :> "b") @@
    ("C" :> "c") @@
    ("D" :> "d") @@
    ("E" :> "e") @@
    ("F" :> "f") @@
    ("G" :> "g") @@
    ("H" :> "h") @@
    ("I" :> "i") @@
    ("J" :> "j") @@
    ("K" :> "k") @@
    ("L" :> "l") @@
    ("M" :> "m") @@
    ("N" :> "n") @@
    ("O" :> "o") @@
    ("P" :> "p") @@
    ("Q" :> "q") @@
    ("R" :> "r") @@
    ("S" :> "s") @@
    ("T" :> "t") @@
    ("U" :> "u") @@
    ("V" :> "v") @@
    ("W" :> "w") @@
    ("X" :> "x") @@
    ("Y" :> "y") @@
    ("Z" :> "z")

\* combinedText.toLowerCase()
toLowerCase(text) ==
    [i \in 1..Len(text) |->
        IF text[i] \in Uppercase THEN LowerOf[text[i]] ELSE text[i]]

\* Scores the lexicon scorer can return: compound on both thresholds, inside
\* the dead zone and outside it, with proportions that sum to 1 or are all 0.
VaderScores ==
    {[compound |-> Zero, pos |-> Zero, neg |-> Zero, neu |-> Zero],
     [compound |-> Zero, pos |-> Zero, neg |-> Zero, neu |-> Num(1, 1)],
     [compound |-> Num(5, 100), pos |-> Num(1, 4), neg |-> Zero,
      neu |-> Num(3, 4)],
     [compound |-> Num(4, 100), pos |-> Num(1, 4), neg |-> Num(1, 4),
      neu |-> Num(1, 2)],
     [compound |-> Neg(Num(5, 100)), pos |-> Zero, neg |-> Num(1, 4),
      neu |-> Num(3, 4)],
     [compound |-> Neg(Num(4, 100)), pos |-> Num(1, 4), neg |-> Num(1, 4),
      neu |-> Num(1, 2)],
     [compound |-> Num(1, 2), pos |-> Num(1, 2), neg |-> Zero,
      neu |-> Num(1, 2)]}

\* The scores of a text without any token: the library finds no sentiment
\* and returns 0 for all four, as the unit test "should handle empty text"
\* states for compound.
EmptyScores == [compound |-> Zero, pos |-> Zero, neg |-> Zero, neu |-> Zero]

\* vader.SentimentIntensityAnalyzer.polarity_scores(cleanText): the scores
\* the library may return; its lexicon is not part of the repository.
polarity_scores(text) == IF text = <<>> THEN {EmptyScores} ELSE VaderScores

\* The literal 0.05 of the label thresholds.
Threshold == Num(5, 100)

\* analyzeSentiment, given the scores the library returned for cleanText
analyzeSentiment(text, scores) ==
    [compound |-> scores.compound,
     positive |-> scores.pos,
     negative |-> scores.neg,
     neutral |-> scores.neu,
     label |-> IF ~FLt(scores.compound, Threshold) THEN "Bullish"
               ELSE IF ~FGt(scores.compound, Neg(Threshold)) THEN "Bearish"
               ELSE "Neutral",
     color |-> IF ~FLt(scores.compound, Threshold) THEN "positive"
               ELSE IF ~FGt(scores.compound, Neg(Threshold)) THEN "negative"
               ELSE "neutral"]

\* Variant of combinedTextOf with the title once.
combinedTextTitleOnce(title, summary) == title \o <<" ">> \o summary

\* const combinedText = `${title} ${title} ${summary}`
combinedTextOf(title, summary) ==
    title \o <<" ">> \o title \o <<" ">> \o summary

financialBullishWords ==
    << <<"p", "r", "o", "f", "i", "t">>,
       <<"g", "a", "i", "n">>,
       <<"r", "i", "s", "e">>,
       <<"s", "u", "r", "g", "e">>,
       <<"r", "a", "l", "l", "y">>,
       <<"b", "u", "l", "l">>,
       <<"b", "u", "l", "l", "i", "s", "h">>,
       <<"g", "r", "o", "w", "t", "h">>,
       <<"i", "n", "c", "r", "e", "a", "s", "e">>,
       <<"u", "p">>,
       <<"p", "o", "s", "i", "t", "i", "v", "e">>,
       <<"s", "t", "r", "o", "n", "g">>,
       <<"b", "e", "a", "t">>,
       <<"e", "x", "c", "e", "e", "d">>,
       <<"o", "u", "t", "p", "e", "r", "f", "o", "r", "m">>,
       <<"b", "r", "e", "a", "k", "t", "h", "r", "o", "u", "g", "h">>,
       <<"s", "u", "c", "c", "e", "s", "s">>,
       <<"r", "e", "c", "o", "r", "d">>,
       <<"h", "i", "g", "h">>,
       <<"s", "o", "a", "r">>,
       <<"c", "l", "i", "m", "b">> >>

financialBearishWords ==
    << <<"l", "o", "s", "s">>,
       <<"f", "a", "l", "l">>,
       <<"d", "r", "o", "p">>,
       <<"c", "r", "a", "s", "h">>,
       <<"b", "e", "a", "r">>,
       <<"b", "e", "a", "r", "i", "s", "h">>,
       <<"d", "e", "c", "l", "i", "n", "e">>,
       <<"d", "e", "c", "r", "e", "a", "s", "e">>,
       <<"d", "o", "w", "n">>,
       <<"n", "e", "g", "a", "t", "i", "v", "e">>,
       <<"w", "e", "a", "k">>,
       <<"m", "i", "s", "s">>,
       <<"u", "n", "d", "e", "r", "p", "e", "r", "f", "o", "r", "m">>,
       <<"c", "o", "n", "c", "e", "r", "n">>,
       <<"w", "o", "r", "r", "y">>,
       <<"r", "i", "s", "k">>,
       <<"t", "h", "r", "e", "a", "t">>,
       <<"l", "o", "w">>,
       <<"p", "l", "u", "n", "g", "e">>,
       <<"t", "u", "m", "b", "l", "e">>,
       <<"s", "l", "i", "d", "e">> >>

\* The positions from i on where word stands in text.
matchesFrom(text, word, i) ==
    {j \in i..(Len(text) - Len(word) + 1) :
        text[j] = word[1] /\ SubSeq(text, j, j + Len(word) - 1) = word}

\* Variant of matchCount without the g flag: the first match only.
matchCountFirstOnly(text, word, i) ==
    IF matchesFrom(text, word, i) = {} THEN 0 ELSE 1

\* (lowerText.match(new RegExp(word, 'g')) || []).length: the matches found
\* from position i on, each search starting where the last match ended
RECURSIVE matchCount(_, _, _)
matchCount(text, word, i) ==
    LET found == matchesFrom(text, word, i)
    IN  IF found = {} THEN 0
        ELSE 1 + matchCount(text, word,
                            (CHOOSE j \in found : \A k \in found : j <= k)
                                + Len(word))

\* The literal 0.1 of the boost.
Tenth == Num(1, 10)

\* The words of a list that have a match in the text, in list order.  A word
\* without a match adds or subtracts 0 * 0.1, which leaves boost as it is.
matching(words, lowerText) ==
    SelectSeq(words, LAMBDA word : matchCount(lowerText, word, 1) > 0)

\* financialBullishWords.forEach(word => { boost += matches * 0.1 }), over
\* the words with a match
RECURSIVE bullishBoost(_, _, _, _)
bullishBoost(boost, words, lowerText, k) ==
    IF k > Len(words) THEN boost
    ELSE bullishBoost(
             FAdd(boost,
                  FMul(Num(matchCount(lowerText, words[k], 1), 1), Tenth)),
             words, lowerText, k + 1)

\* financialBearishWords.forEach(word => { boost -= matches * 0.1 }), over
\* the words with a match
RECURSIVE bearishBoost(_, _, _, _)
bearishBoost(boost, words, lowerText, k) ==
    IF k > Len(words) THEN boost
    ELSE bearishBoost(
             FSub(boost,
                  FMul(Num(matchCount(lowerText, words[k], 1), 1), Tenth)),
             words, lowerText, k + 1)

\* let boost of analyzeFinancialSentiment after both loops
financialBoost(lowerText) ==
    bearishBoost(
        bullishBoost(Zero, matching(financialBullishWords, lowerText),
                     lowerText, 1),
        matching(financialBearishWords, lowerText), lowerText, 1)

\* Variant of boostedCompound without the clamp.
boostedCompoundUnclamped(compound, boost) == FAdd(compound, boost)

\* Math.max(-1, Math.min(1, sentiment.compound + boost))
boostedCompound(compound, boost) ==
    MathMax(<<Neg(Num(1, 1)),
              MathMin(<<Num(1, 1), FAdd(compound, boost)>>)>>)

\* Variant of analyzeFinancialSentiment that keeps the label and color of
\* the baseline.
analyzeFinancialSentimentBaselineLabel(title, summary, scores) ==
    LET combinedText == combinedTextOf(title, summary)
        sentiment == analyzeSentiment(combinedText, scores)
        boost == financialBoost(toLowerCase(combinedText))
    IN  [sentiment EXCEPT
            !.compound = boostedCompound(sentiment.compound, boost)]

\* Variant of analyzeFinancialSentiment that moves the boost into the
\* positive and negative proportions.
analyzeFinancialSentimentRenormalized(title, summary, scores) ==
    LET combinedText == combinedTextOf(title, summary)
        sentiment == analyzeSentiment(combinedText, scores)
        boost == financialBoost(toLowerCase(combinedText))
        compound == boostedCompound(sentiment.compound, boost)
    IN  [sentiment EXCEPT
            !.compound = compound,
            !.positive = IF FGt(boost, Zero) THEN FAdd(@, boost) ELSE @,
            !.negative = IF FLt(boost, Zero) THEN FSub(@, boost) ELSE @,
            !.label = IF ~FLt(compound, Threshold) THEN "Bullish"
                      ELSE IF ~FGt(compound, Neg(Threshold)) THEN "Bearish"
                      ELSE "Neutral",
            !.color = IF ~FLt(compound, Threshold) THEN "positive"
                      ELSE IF ~FGt(compound, Neg(Threshold)) THEN "negative"
                      ELSE "neutral"]

\* analyzeFinancialSentiment, given the scores the library returned for the
\* cleaned combined text
analyzeFinancialSentiment(title, summary, scores) ==
    LET combinedText == combinedTextOf(title, summary)
        sentiment == analyzeSentiment(combinedText, scores)
        lowerText == toLowerCase(combinedText)
        boost == financialBoost(lowerText)
        compound == boostedCompound(sentiment.compound, boost)
    IN  [sentiment EXCEPT
            !.compound = compound,
            !.label = IF ~FLt(compound, Threshold) THEN "Bullish"
                      ELSE IF ~FGt(compound, Neg(Threshold)) THEN "Bearish"
                      ELSE "Neutral",
            !.color = IF ~FLt(compound, Threshold) THEN "positive"
                      ELSE IF ~FGt(compound, Neg(Threshold)) THEN "negative"
                      ELSE "neutral"]

DigitCharacters == <<"0", "1", "2", "3", "4", "5", "6", "7", "8", "9">>

RECURSIVE Pow10(_)
Pow10(n) == IF n <= 0 THEN 1 ELSE 10 * Pow10(n - 1)

\* The decimal digits of n >= 0, without leading zeros.
RECURSIVE digitsOf(_)
digitsOf(n) ==
    IF n < 10 THEN <<DigitCharacters[n + 1]>>
    ELSE Append(digitsOf(n \div 10), DigitCharacters[(n % 10) + 1])

\* The last f decimal digits of n >= 0, with leading zeros.
RECURSIVE fractionDigits(_, _)
fractionDigits(n, f) ==
    IF f = 0 THEN <<>>
    ELSE Append(fractionDigits(n \div 10, f - 1), DigitCharacters[(n % 10) + 1])

\* The integer n for which n / 10^f is closest to |x|, the larger of two.
scaledNearest(x, f) ==
    IF x[2] >= 0 THEN Abs(x[1]) * Pow2(x[2]) * Pow10(f)
    ELSE (2 * Abs(x[1]) * Pow10(f) + Pow2(-x[2])) \div (2 * Pow2(-x[2]))

\* Number.prototype.toFixed(f) for f >= 1 and |x| < 10^21
toFixed(x, f) ==
    LET n == scaledNearest(x, f)
    IN  (IF x[1] < 0 THEN <<"-">> ELSE <<>>)
            \o digitsOf(n \div Pow10(f)) \o <<".">>
            \o fractionDigits(n % Pow10(f), f)

\* Variant of formatSentimentScore with '+' for a score > 0 only.
formatSentimentScorePositiveOnly(score) ==
    LET percentage == toFixed(FMul(score, Num(100, 1)), 1)
    IN  IF FGt(score, Zero)
        THEN <<"+">> \o percentage \o <<"%">>
        ELSE percentage \o <<"%">>

\* formatSentimentScore
formatSentimentScore(score) ==
    LET percentage == toFixed(FMul(score, Num(100, 1)), 1)
    IN  IF ~FLt(score, Zero)
        THEN <<"+">> \o percentage \o <<"%">>
        ELSE percentage \o <<"%">>

\* The glyphs of getSentimentIcon, by their code points.
UpArrow == "U+2197 U+FE0F"
DownArrow == "U+2198 U+FE0F"
HorizontalLine == "U+2796"

\* Variant of getSentimentIcon that reads the label.
getSentimentIconByLabel(sentiment) ==
    IF sentiment.label = "Bullish" THEN UpArrow
    ELSE IF sentiment.label = "Bearish" THEN DownArrow
    ELSE HorizontalLine

\* getSentimentIcon
getSentimentIcon(sentiment) ==
    IF sentiment.color = "positive" THEN UpArrow
    ELSE IF sentiment.color = "negative" THEN DownArrow
    ELSE HorizontalLine

(***************************************************************************)
(* The trade journal: amounts are decimals with two places, kept as a      *)
(* number of hundredths, in the columns numeric(15,2) and in the number    *)
(* inputs of the forms; the handlers' additions and subtractions are       *)
(* floating-point operations on the numbers nearest to them.               *)
(***************************************************************************)
\* The number of hundredths in one unit.
Hundred == 100

\* The JavaScript number of the decimal with c hundredths.
Number(c) == Num(c, Hundred)

\* The value a column numeric(15,2) stores for the number x: the nearest
\* decimal with two places, a tie away from zero.
toNumeric(x) == Sign(x) * scaledNearest(x, 2)

\* Number.prototype.toString() of the decimal with c hundredths
numberToString(c) ==
    LET a == Abs(c)
        frac == a % Hundred
    IN  (IF c < 0 THEN <<"-">> ELSE <<>>)
            \o digitsOf(a \div Hundred)
            \o (IF frac = 0 THEN <<>>
                ELSE IF frac % 10 = 0
                THEN <<".", DigitCharacters[(frac \div 10) + 1]>>
                ELSE <<".">> \o fractionDigits(frac, 2))

\* The digit a digit character stands for.
digitValue(ch) == CHOOSE d \in 0..9 : DigitCharacters[d + 1] = ch

\* The number the digits of s from position i on stand for, after acc.
RECURSIVE parseDigits(_, _, _)
parseDigits(acc, s, i) ==
    IF i > Len(s) THEN acc
    ELSE parseDigits(10 * acc + digitValue(s[i]), s, i + 1)

\* parseFloat(s) of the value of a number input with at most two decimal
\* places, in hundredths.
parseFloat(s) ==
    LET negative == s # <<>> /\ s[1] = "-"
        body == IF negative THEN Tail(s) ELSE s
        dots == {i \in 1..Len(body) : body[i] = "."}
        dot == IF dots = {} THEN Len(body) + 1 ELSE CHOOSE i \in dots : TRUE
        whole == parseDigits(0, SubSeq(body, 1, dot - 1), 1)
        decimals == SubSeq(body, dot + 1, Len(body))
        frac == IF Len(decimals) = 0 THEN 0
                ELSE IF Len(decimals) = 1 THEN 10 * parseDigits(0, decimals, 1)
                ELSE parseDigits(0, decimals, 1)
    IN  (IF negative THEN -1 ELSE 1) * (whole * Hundred + frac)

\* The upper-case letter of every lower-case letter.
UpperOf == [c \in Lowercase |-> CHOOSE u \in Uppercase : LowerOf[u] = c]

\* pair.toUpperCase().trim()
normalizePair(pair) ==
    trim([i \in 1..Len(pair) |->
              IF pair[i] \in Lowercase THEN UpperOf[pair[i]] ELSE pair[i]])

\* A column or local that may be null holds Null or Some(v).
Some(v) == <<v>>

\* let pnlAmount = form.pnl_amount ? parseFloat(form.pnl_amount) : null
\* const exitPrice = form.exit_price ? parseFloat(form.exit_price) : null
parseOptional(field) == IF field # <<>> THEN Some(parseFloat(field)) ELSE Null

\* const expectedProfit: the sign of the floating-point difference
\* exitPrice - entryPrice, by the position
expectedProfit(position, entryPrice, exitPrice) ==
    LET priceMovement == FSub(Number(exitPrice), Number(entryPrice))
    IN  IF position = "Long" THEN FGt(priceMovement, Zero)
        ELSE FLt(priceMovement, Zero)

\* Variant of correctedPnl that keeps the amount entered.
correctedPnlAsEntered(position, entryPrice, exitPrice, pnlAmount) == pnlAmount

\* "Validate P&L logic if both exit price and P&L are provided": the
\* pnlAmount after the block, the same in handleAddTrade and
\* handleUpdateTrade.
correctedPnl(position, entryPrice, exitPrice, pnlAmount) ==
    IF exitPrice # Null /\ exitPrice[1] # 0 /\ pnlAmount # Null
    THEN IF pnlAmount[1] > 0
                /\ ~expectedProfit(position, entryPrice, exitPrice[1])
         THEN Some(-Abs(pnlAmount[1]))
         ELSE IF pnlAmount[1] < 0
                     /\ expectedProfit(position, entryPrice, exitPrice[1])
         THEN Some(Abs(pnlAmount[1]))
         ELSE pnlAmount
    ELSE pnlAmount

\* const tradeData of handleAddTrade and const updateData of
\* handleUpdateTrade: the columns written from a form
tradeDataOf(form) ==
    LET entryPrice == parseFloat(form.entry_price)
        exitPrice == parseOptional(form.exit_price)
    IN  [date |-> form.date,
         pair |-> normalizePair(form.pair),
         position |-> form.position,
         entry_price |-> entryPrice,
         exit_price |-> exitPrice,
         pnl_amount |-> correctedPnl(form.position, entryPrice, exitPrice,
                                     parseOptional(form.pnl_amount))]

\* The row of table trades with the columns of data.
rowOf(id, accountId, data) ==
    [id |-> id,
     trading_account_id |-> accountId,
     date |-> data.date,
     pair |-> data.pair,
     position |-> data.position,
     entry_price |-> data.entry_price,
     exit_price |-> data.exit_price,
     pnl_amount |-> data.pnl_amount]

\* The form handleEditTrade fills from a trade: a price or an amount that is
\* null or 0 becomes the empty string.
editFormOf(trade) ==
    [date |-> trade.date,
     pair |-> trade.pair,
     position |-> trade.position,
     entry_price |-> numberToString(trade.entry_price),
     exit_price |-> IF trade.exit_price # Null /\ trade.exit_price[1] # 0
                    THEN numberToString(trade.exit_price[1]) ELSE <<>>,
     pnl_amount |-> IF trade.pnl_amount # Null /\ trade.pnl_amount[1] # 0
                    THEN numberToString(trade.pnl_amount[1]) ELSE <<>>,
     trading_account_id |-> trade.trading_account_id]

\* value || 0
OrZeroAmount(v) == IF v = Null THEN 0 ELSE v[1]

\* const newBalance = currentBalance + pnlAmount of handleAddTrade
balanceAfterAdd(currentBalance, pnlAmount) ==
    FAdd(Number(currentBalance), Number(pnlAmount))

\* const pnlDifference = newPnL - originalPnL of handleUpdateTrade
pnlDifferenceOf(newPnL, originalPnL) == FSub(Number(newPnL), Number(originalPnL))

\* const newBalance = currentBalance + pnlDifference of handleUpdateTrade
balanceAfterUpdate(currentBalance, pnlDifference) ==
    FAdd(Number(currentBalance), pnlDifference)

\* Variant of balanceAfterDelete that adds the amount of the deleted trade.
balanceAfterDeleteAdded(currentBalance, tradePnL) ==
    FAdd(Number(currentBalance), Number(tradePnL))

\* const newBalance = currentBalance - tradePnL of handleDeleteTrade
balanceAfterDelete(currentBalance, tradePnL) ==
    FSub(Number(currentBalance), Number(tradePnL))

(***************************************************************************)
(* State: the React state of DashboardPage that the analytics read and     *)
(* write, the clock, the result of the test module's function, and the     *)
(* arguments, locals and results of the sentiment functions; the tables    *)
(* trading_accounts and trades, the React state of JournalPage and the     *)
(* calls of its handlers that are under way.                               *)
(***************************************************************************)
VARIABLES
    trades,            \* useState<Trade[]>
    accounts,          \* useState<TradingAccount[]>
    selectedAccount,   \* useState<string>
    timeframe,         \* useState<'7d' | '30d' | '90d' | 'all'>
    now,               \* the instant new Date() returns
    metrics,           \* useState<DashboardMetrics | null>
    chartData,         \* useState<ChartDataPoint[]>
    dailyPnL,          \* useState<DailyPnL[]>
    dashboardMetrics,  \* const metrics of MockDashboard
    sentimentText,     \* text, the argument of analyzeSentiment
    articleTitle,      \* title, argument of analyzeFinancialSentiment
    articleSummary,    \* summary, argument of analyzeFinancialSentiment
    cleanText,         \* const cleanText, the argument of polarity_scores
    baselineScores,    \* const scores, the value polarity_scores returned
    keywordBoost,      \* let boost of analyzeFinancialSentiment
    vader_sentiment,   \* the SentimentResult returned
    formatted,         \* the string formatSentimentScore returned
    icon,              \* the glyph getSentimentIcon returned
    accountRows,       \* table trading_accounts, by id
    tradeRows,         \* table trades, by id
    lastTradeId,       \* the ids table trades has generated so far
    journalAccounts,   \* JournalPage: useState<TradingAccount[]>
    journalSelectedAccount, \* JournalPage: useState<string>, selectedAccount
    journalTrades,     \* JournalPage: useState<Trade[]>
    editingTradeId,    \* JournalPage: useState<string | null>
    editTrade,         \* JournalPage: the form of the trade being edited
    journalError,      \* JournalPage: useState(''), error
    calls,             \* the handler calls under way, with their locals
    tradesTable,       \* table trades as the dashboard reads it, by account
    localStorage,      \* the item selectedTradingAccount, "" if not set
    loads,             \* DashboardPage: the loadTrades calls made so far
    teamId,            \* TeamRoomPage: params.teamId
    room,              \* the mounted TeamRoomPage instance, 0 if none
    lastRoom,          \* the TeamRoomPage instances mounted so far
    pollIntervalRef,   \* useRef<NodeJS.Timeout | null> of each instance
    intervals,         \* the timers setInterval has set and nothing cleared
    lastIntervalId,    \* the timer ids setInterval has returned so far
    inits,             \* the initializeTeamRoom calls made so far
    messages,          \* TeamRoomPage: useState<ChatMessage[]>, by team
    pc                 \* the last function that has run

\* The state of the dashboard and the state of the sentiment functions.
dashboardVars == <<trades, accounts, selectedAccount, timeframe, now, metrics,
                   chartData, dailyPnL, dashboardMetrics>>
sentimentVars == <<sentimentText, articleTitle, articleSummary, cleanText,
                   baselineScores, keywordBoost, vader_sentiment, formatted,
                   icon>>

journalVars == <<accountRows, tradeRows, lastTradeId, journalAccounts,
                 journalSelectedAccount, journalTrades, editingTradeId,
                 editTrade, journalError, calls>>

\* The requests of the dashboard page and the state of the team room.
loadVars == <<tradesTable, localStorage, loads>>
teamRoomVars == <<teamId, room, lastRoom, pollIntervalRef, intervals,
                  lastIntervalId, inits, messages>>

vars == <<dashboardVars, sentimentVars, journalVars, loadVars, teamRoomVars,
          pc>>

\* The ids of the trading accounts, in the order of their creation.
AccountIds == <<"a1", "a2">>

\* The handler calls that can be under way at once.
Handlers == {"h1", "h2"}

\* const [editTrade, setEditTrade] = useState({...}): the empty form
EmptyEditTrade ==
    [date |-> "", pair |-> <<>>, position |-> "Long", entry_price |-> <<>>,
     exit_price |-> <<>>, pnl_amount |-> <<>>, trading_account_id |-> ""]

\* JournalPage before it is mounted, over empty tables.
JournalUnmounted ==
    /\ accountRows = [a \in {AccountIds[i] : i \in 1..Len(AccountIds)} |-> Null]
    /\ tradeRows = [id \in 1..MaxJournalTrades |-> Null]
    /\ lastTradeId = 0
    /\ journalAccounts = <<>>
    /\ journalSelectedAccount = ""
    /\ journalTrades = <<>>
    /\ editingTradeId = Null
    /\ editTrade = EmptyEditTrade
    /\ journalError = ""
    /\ calls = [h \in Handlers |-> Null]

\* The accounts of the dashboard's user, and the teams of the team room.
DashboardAccountIds == {"a1", "a2"}
TeamIds == {"t1", "t2"}

\* DashboardPage with no loadTrades call made, over a table without trades.
DashboardUnmounted ==
    /\ tradesTable = [a \in DashboardAccountIds |-> <<>>]
    /\ localStorage = ""
    /\ loads = <<>>

\* No TeamRoomPage has been mounted.
TeamRoomUnmounted ==
    /\ teamId = ""
    /\ room = 0
    /\ lastRoom = 0
    /\ pollIntervalRef = [r \in 1..MaxMounts |-> Null]
    /\ intervals = {}
    /\ lastIntervalId = 0
    /\ inits = <<>>
    /\ messages = ""

\* All sequences over S of length at most n.
BoundedSeq(S, n) == UNION {[1..k -> S] : k \in 0..n}

\* pnl_amount values: absent, breakeven, a win, a loss, a large win, and a
\* decimal fraction that the number type cannot store exactly.
PnlValues == {Null, Zero, Num(1, 1), Num(-1, 1), Num(999, 1), Num(1, 10)}

\* Trade dates on both sides of the 7-day and 30-day cutoffs.
DateValues == {NowDay - 40, NowDay - 8, NowDay - 7}

\* The clock at midnight and inside the day.
NowValues == {ToTime(NowDay), ToTime(NowDay) + 1}

\* Inputs of the metrics: every pnl_amount value, one date.
MetricTrades == [date : {NowDay - 7}, pnl_amount : PnlValues]

\* Inputs of the equity curve: every date, in any order.
ChartTrades == [date : DateValues, pnl_amount : {Null, Num(1, 1), Num(-1, 1)}]

Init ==
    /\ \/ /\ trades \in BoundedSeq(MetricTrades, MaxTrades)
          /\ timeframe = "30d"
          /\ now = ToTime(NowDay)
       \/ /\ trades \in BoundedSeq(ChartTrades, MaxTrades)
          /\ timeframe \in Timeframes
          /\ now \in NowValues
    /\ accounts = <<[id |-> "a1", initial_balance |-> Num(1000, 1)]>>
    /\ selectedAccount = "a1"
    /\ metrics = NullMetrics
    /\ chartData = <<>>
    /\ dailyPnL = <<>>
    /\ dashboardMetrics = NullMetrics
    /\ sentimentText = <<>>
    /\ articleTitle = <<>>
    /\ articleSummary = <<>>
    /\ cleanText = <<>>
    /\ baselineScores = Null
    /\ keywordBoost = Zero
    /\ vader_sentiment = Null
    /\ formatted = <<>>
    /\ icon = ""
    /\ JournalUnmounted
    /\ DashboardUnmounted
    /\ TeamRoomUnmounted
    /\ pc = "start"

\* calculateMetrics(), first call of the effect on [trades, selectedAccount,
\* timeframe]
CalculateMetrics ==
    /\ pc = "start"
    /\ metrics' = calculateMetrics(trades)
    /\ pc' = "calculateMetrics"
    /\ UNCHANGED <<trades, accounts, selectedAccount, timeframe, now,
                   chartData, dailyPnL, dashboardMetrics>>
    /\ UNCHANGED sentimentVars
    /\ UNCHANGED <<journalVars, loadVars, teamRoomVars>>

\* generateChartData(), second call of the effect
GenerateChartData ==
    /\ pc = "calculateMetrics"
    /\ chartData' = generateChartData(trades, accounts, selectedAccount,
                                      timeframe, now, chartData)
    /\ pc' = "generateChartData"
    /\ UNCHANGED <<trades, accounts, selectedAccount, timeframe, now,
                   metrics, dailyPnL, dashboardMetrics>>
    /\ UNCHANGED sentimentVars
    /\ UNCHANGED <<journalVars, loadVars, teamRoomVars>>

\* calculateDailyPnL(), third call of the effect
CalculateDailyPnL ==
    /\ pc = "generateChartData"
    /\ dailyPnL' = calculateDailyPnL(trades)
    /\ pc' = "calculateDailyPnL"
    /\ UNCHANGED <<trades, accounts, selectedAccount, timeframe, now,
                   metrics, chartData, dashboardMetrics>>
    /\ UNCHANGED sentimentVars
    /\ UNCHANGED <<journalVars, loadVars, teamRoomVars>>

\* MockDashboard: const metrics = calculateDashboardMetrics(trades)
CalculateDashboardMetrics ==
    /\ pc = "calculateDailyPnL"
    /\ dashboardMetrics' = calculateDashboardMetrics(trades)
    /\ pc' = "calculateDashboardMetrics"
    /\ UNCHANGED <<trades, accounts, selectedAccount, timeframe, now,
                   metrics, chartData, dailyPnL>>
    /\ UNCHANGED sentimentVars
    /\ UNCHANGED <<journalVars, loadVars, teamRoomVars>>

Next ==
    \/ CalculateMetrics
    \/ GenerateChartData
    \/ CalculateDailyPnL
    \/ CalculateDashboardMetrics

Spec == Init /\ [][Next]_vars

\* Inputs of the daily totals: two dates, in any order, and amounts that the
\* number type cannot store exactly.
DailyTrades ==
    [date : {NowDay - 8, NowDay - 7},
     pnl_amount : {Null, Num(1, 10), Num(2, 10), Num(3, 10), Num(-1, 10)}]

\* The dashboard before its effect runs over a list of such trades.
DailyInit ==
    /\ trades \in BoundedSeq(DailyTrades, MaxTrades)
    /\ timeframe = "30d"
    /\ now = ToTime(NowDay)
    /\ accounts = <<[id |-> "a1", initial_balance |-> Num(1000, 1)]>>
    /\ selectedAccount = "a1"
    /\ metrics = NullMetrics
    /\ chartData = <<>>
    /\ dailyPnL = <<>>
    /\ dashboardMetrics = NullMetrics
    /\ sentimentText = <<>>
    /\ articleTitle = <<>>
    /\ articleSummary = <<>>
    /\ cleanText = <<>>
    /\ baselineScores = Null
    /\ keywordBoost = Zero
    /\ vader_sentiment = Null
    /\ formatted = <<>>
    /\ icon = ""
    /\ JournalUnmounted
    /\ DashboardUnmounted
    /\ TeamRoomUnmounted
    /\ pc = "start"

SpecDaily == DailyInit /\ [][Next]_vars

\* Which results have been computed.
MetricsDone == pc # "start"
ChartDone == pc \in {"generateChartData", "calculateDailyPnL",
                     "calculateDashboardMetrics"}
DailyDone == pc \in {"calculateDailyPnL", "calculateDashboardMetrics"}
DashboardMetricsDone == pc = "calculateDashboardMetrics"

(***************************************************************************)
(* The sentiment functions, applied to bounded inputs.                     *)
(***************************************************************************)
\* Words of the texts: a bullish and a bearish keyword, each containing a
\* shorter keyword, one of them capitalised; a word in which a keyword
\* overlaps itself; a word without a keyword and with a character the
\* cleaning replaces.
Vocabulary ==
    {<<"B", "u", "l", "l", "i", "s", "h">>,
     <<"b", "e", "a", "r", "i", "s", "h">>,
     <<"h", "i", "g", "h", "i", "g", "h">>,
     <<"$", "5", "!">>}

\* The words of ws joined by single spaces.
RECURSIVE JoinWords(_)
JoinWords(ws) ==
    IF Len(ws) = 0 THEN <<>>
    ELSE IF Len(ws) = 1 THEN ws[1]
    ELSE ws[1] \o <<" ">> \o JoinWords(Tail(ws))

\* Texts of at most n words.
TextsOf(n) == {JoinWords(ws) : ws \in BoundedSeq(Vocabulary, n)}

\* Texts that the cleaning removes wholly: special characters and whitespace.
StrippedTexts ==
    {<<"$">>, <<"$", " ", "#">>, <<" ", "\t", "\n">>, <<"@", "\n", "$">>}

\* Scores to format: 0, both signs, the bounds of compound, and a negative
\* score that rounds to zero tenths of a percent.
ScoreValues ==
    {Zero, Num(1, 2), Neg(Num(1, 2)), Num(123, 1000), Neg(Num(123, 1000)),
     Num(1, 1), Neg(Num(1, 1)), Neg(Num(4, 10000))}

Labels == {"Bullish", "Bearish", "Neutral"}
Colors == {"positive", "negative", "neutral"}

\* Every value of type SentimentResult over the scores above.
SentimentResults ==
    [compound : ScoreValues, positive : {Num(1, 4)}, negative : {Zero},
     neutral : {Num(3, 4)}, label : Labels, color : Colors]

SentimentInit ==
    /\ \/ /\ sentimentText \in TextsOf(MaxTitleWords) \cup StrippedTexts
          /\ articleTitle = <<>>
          /\ articleSummary = <<>>
          /\ vader_sentiment = Null
       \/ /\ sentimentText = <<>>
          /\ articleTitle \in TextsOf(MaxTitleWords)
          /\ articleSummary \in TextsOf(MaxSummaryWords)
          /\ vader_sentiment = Null
       \/ /\ sentimentText = <<>>
          /\ articleTitle = <<>>
          /\ articleSummary = <<>>
          /\ vader_sentiment \in SentimentResults
    /\ cleanText = <<>>
    /\ baselineScores = Null
    /\ keywordBoost = Zero
    /\ formatted = <<>>
    /\ icon = ""
    /\ JournalUnmounted
    /\ DashboardUnmounted
    /\ TeamRoomUnmounted
    /\ trades = <<>>
    /\ accounts = <<[id |-> "a1", initial_balance |-> Num(1000, 1)]>>
    /\ selectedAccount = "a1"
    /\ timeframe = "30d"
    /\ now = ToTime(NowDay)
    /\ metrics = NullMetrics
    /\ chartData = <<>>
    /\ dailyPnL = <<>>
    /\ dashboardMetrics = NullMetrics
    /\ pc = "start"

\* analyzeSentiment(text)
AnalyzeSentiment ==
    /\ pc = "start"
    /\ vader_sentiment = Null
    /\ cleanText' = cleanTextOf(sentimentText)
    /\ \E s \in polarity_scores(cleanTextOf(sentimentText)) :
           /\ baselineScores' = s
           /\ vader_sentiment' = analyzeSentiment(sentimentText, s)
    /\ pc' = "analyzeSentiment"
    /\ UNCHANGED <<sentimentText, articleTitle, articleSummary, keywordBoost,
                   formatted, icon>>
    /\ UNCHANGED dashboardVars
    /\ UNCHANGED <<journalVars, loadVars, teamRoomVars>>

\* vader_sentiment: analyzeFinancialSentiment(article.title, article.summary)
AnalyzeFinancialSentiment ==
    /\ pc = "start"
    /\ vader_sentiment = Null
    /\ cleanText' = cleanTextOf(combinedTextOf(articleTitle, articleSummary))
    /\ \E s \in polarity_scores(
                   cleanTextOf(combinedTextOf(articleTitle, articleSummary))) :
           /\ baselineScores' = s
           /\ vader_sentiment'
                  = analyzeFinancialSentiment(articleTitle, articleSummary, s)
    /\ keywordBoost'
           = financialBoost(
                 toLowerCase(combinedTextOf(articleTitle, articleSummary)))
    /\ pc' = "analyzeFinancialSentiment"
    /\ UNCHANGED <<sentimentText, articleTitle, articleSummary, formatted, icon>>
    /\ UNCHANGED dashboardVars
    /\ UNCHANGED <<journalVars, loadVars, teamRoomVars>>

\* formatSentimentScore(article.vader_sentiment.compound)
FormatSentimentScore ==
    /\ pc \in {"start", "analyzeSentiment", "analyzeFinancialSentiment"}
    /\ vader_sentiment # Null
    /\ formatted' = formatSentimentScore(vader_sentiment.compound)
    /\ pc' = "formatSentimentScore"
    /\ UNCHANGED <<sentimentText, articleTitle, articleSummary, cleanText,
                   baselineScores, keywordBoost, vader_sentiment, icon>>
    /\ UNCHANGED dashboardVars
    /\ UNCHANGED <<journalVars, loadVars, teamRoomVars>>

\* getSentimentIcon(sentiment), applied to the result at hand
GetSentimentIcon ==
    /\ pc = "formatSentimentScore"
    /\ icon' = getSentimentIcon(vader_sentiment)
    /\ pc' = "getSentimentIcon"
    /\ UNCHANGED <<sentimentText, articleTitle, articleSummary, cleanText,
                   baselineScores, keywordBoost, vader_sentiment, formatted>>
    /\ UNCHANGED dashboardVars
    /\ UNCHANGED <<journalVars, loadVars, teamRoomVars>>

SentimentNext ==
    \/ AnalyzeSentiment
    \/ AnalyzeFinancialSentiment
    \/ FormatSentimentScore
    \/ GetSentimentIcon

SpecSentiment == SentimentInit /\ [][SentimentNext]_vars

\* Which sentiment results have been computed.
Analyzed == pc \in {"analyzeSentiment", "analyzeFinancialSentiment"}
FinancialAnalyzed == pc = "analyzeFinancialSentiment"
Formatted == pc \in {"formatSentimentScore", "getSentimentIcon"}
IconDone == pc = "getSentimentIcon"

(***************************************************************************)
(* The trade journal: AccountPage creates accounts, JournalPage adds,      *)
(* edits and deletes trades.  Every handler runs from one await to the     *)
(* next in one step; a query takes effect in the step that sends it.       *)
(* The handlers read the React state of the render that created them:      *)
(* a call keeps the trades and accounts it started with.                   *)
(***************************************************************************)
\* accountsData of checkUser: the accounts created, the newest first
accountsData(rows) ==
    LET created == SelectSeq(AccountIds, LAMBDA a : rows[a] # Null)
    IN  [i \in 1..Len(created) |->
            [id |-> created[Len(created) + 1 - i],
             current_balance
                 |-> rows[created[Len(created) + 1 - i]].current_balance]]

\* tradesData of loadTrades(accountId): the trades of the account; all have
\* one date, and the newest comes first
tradesData(rows, accountId) ==
    LET ids == {id \in DOMAIN rows :
                   rows[id] # Null /\ rows[id].trading_account_id = accountId}
    IN  [i \in 1..Cardinality(ids) |->
            rows[CHOOSE id \in ids : Cardinality({j \in ids : j > id}) = i - 1]]

\* trades.find(t => t.id === id), Null when there is none
findTrade(ts, id) ==
    IF \E i \in 1..Len(ts) : ts[i].id = id
    THEN ts[CHOOSE i \in 1..Len(ts) : ts[i].id = id]
    ELSE Null

\* accounts.map(acc => acc.id === id ? {...acc, current_balance} : acc)
withBalance(accs, id, balance) ==
    [i \in 1..Len(accs) |->
        IF accs[i].id = id THEN [accs[i] EXCEPT !.current_balance = balance]
        ELSE accs[i]]

\* A call of handler op that has reached its balance update.
callOf(op, accountId, trade, amount, difference) ==
    [op |-> op, pc |-> "readBalance", accountId |-> accountId,
     trade |-> trade, amount |-> amount, difference |-> difference,
     newBalance |-> Zero, trades |-> journalTrades,
     accounts |-> journalAccounts]

\* Call h is at step pc of handler op.
At(h, op, step) == calls[h] # Null /\ calls[h].op = op /\ calls[h].pc = step

\* Call h ends.
Return(h) == calls' = [calls EXCEPT ![h] = Null]

\* Values of the number inputs and of the other fields of the two forms.
DateInput == "2024-01-15"
PairInputs == {<<"e", "u", " ">>, <<"E", "U">>}
Positions == {"Long", "Short"}
EntryInput == <<"1">>
ExitInputs ==
    {<<>>, <<"0">>, <<"0", ".", "9", "9">>, <<"1", ".", "0", "1">>}
PnlInputs == {<<>>, <<"0">>, <<"0", ".", "0", "1">>, <<"-", "0", ".", "0", "1">>}
BalanceInputs == {<<"1">>}

\* The values of newTrade the user can submit.
NewTradeForms ==
    [date : {DateInput}, pair : PairInputs, position : Positions,
     entry_price : {EntryInput}, exit_price : ExitInputs,
     pnl_amount : PnlInputs]

\* The amounts and forms of the runs that follow the balance: an open
\* trade, a win and a loss, with an exit price or without one.
BalanceAmounts == {<<>>, <<"0", ".", "0", "1">>, <<"-", "0", ".", "0", "1">>}
BalanceForms ==
    [date : {DateInput}, pair : {<<"E", "U">>}, position : {"Long"},
     entry_price : {EntryInput}, exit_price : {<<>>, <<"1", ".", "0", "1">>},
     pnl_amount : BalanceAmounts]

\* AccountPage.handleAddAccount with newAccount.initialBalance = balance
HandleAddAccount(balance) ==
    /\ \E i \in 1..Len(AccountIds) :
           /\ accountRows[AccountIds[i]] = Null
           /\ \A j \in 1..(i - 1) : accountRows[AccountIds[j]] # Null
           /\ accountRows'
                  = [accountRows EXCEPT ![AccountIds[i]]
                         = [initial_balance |-> toNumeric(Number(parseFloat(balance))),
                            current_balance |-> toNumeric(Number(parseFloat(balance)))]]
    /\ UNCHANGED <<tradeRows, lastTradeId, journalAccounts,
                   journalSelectedAccount, journalTrades, editingTradeId,
                   editTrade, journalError, calls>>
    /\ UNCHANGED <<dashboardVars, sentimentVars, loadVars, teamRoomVars, pc>>

\* JournalPage is mounted: checkUser() loads the accounts, selects the first
\* and loads its trades
CheckUser ==
    /\ \A h \in Handlers : calls[h] = Null
    /\ journalAccounts' = accountsData(accountRows)
    /\ IF Len(accountsData(accountRows)) > 0
       THEN /\ journalSelectedAccount' = accountsData(accountRows)[1].id
            /\ journalTrades'
                   = tradesData(tradeRows, accountsData(accountRows)[1].id)
       ELSE /\ journalSelectedAccount' = ""
            /\ journalTrades' = <<>>
    /\ editingTradeId' = Null
    /\ editTrade' = EmptyEditTrade
    /\ journalError' = ""
    /\ UNCHANGED <<accountRows, tradeRows, lastTradeId, calls>>
    /\ UNCHANGED <<dashboardVars, sentimentVars, loadVars, teamRoomVars, pc>>

\* handleAccountChange(accountId): setSelectedAccount and loadTrades
HandleAccountChange(accountId) ==
    /\ \E i \in 1..Len(journalAccounts) : journalAccounts[i].id = accountId
    /\ accountId # journalSelectedAccount
    /\ journalSelectedAccount' = accountId
    /\ journalTrades' = tradesData(tradeRows, accountId)
    /\ UNCHANGED <<accountRows, tradeRows, lastTradeId, journalAccounts,
                   editingTradeId, editTrade, journalError, calls>>
    /\ UNCHANGED <<dashboardVars, sentimentVars, loadVars, teamRoomVars, pc>>

\* handleAddTrade up to the insert and, when pnlAmount is null or 0, to its
\* end; ok: the insert succeeds
AddTradeInsert(h, form, ok) ==
    /\ calls[h] = Null
    /\ LET data == tradeDataOf(form)
           created == rowOf(lastTradeId + 1, journalSelectedAccount, data)
       IN  IF journalSelectedAccount = ""
           THEN /\ journalError' = "Please select a trading account"
                /\ UNCHANGED <<tradeRows, lastTradeId, journalTrades, calls>>
           ELSE IF form.pair = <<>> \/ form.entry_price = <<>>
           THEN /\ journalError' = "Please fill in all required fields"
                /\ UNCHANGED <<tradeRows, lastTradeId, journalTrades, calls>>
           ELSE IF ~ok
           THEN /\ journalError' = "Database error"
                /\ UNCHANGED <<tradeRows, lastTradeId, journalTrades, calls>>
           ELSE /\ lastTradeId < MaxJournalTrades
                /\ tradeRows' = [tradeRows EXCEPT ![lastTradeId + 1] = created]
                /\ lastTradeId' = lastTradeId + 1
                /\ journalError' = ""
                /\ IF data.pnl_amount # Null /\ data.pnl_amount[1] # 0
                   THEN /\ calls' = [calls EXCEPT ![h]
                                = callOf("add", journalSelectedAccount, created,
                                         data.pnl_amount[1], Zero)]
                        /\ UNCHANGED journalTrades
                   ELSE /\ journalTrades' = <<created>> \o journalTrades
                        /\ UNCHANGED calls
    /\ UNCHANGED <<accountRows, journalAccounts, journalSelectedAccount,
                   editingTradeId, editTrade>>
    /\ UNCHANGED <<dashboardVars, sentimentVars, loadVars, teamRoomVars, pc>>

\* handleAddTrade: "Get the fresh current balance from the account"
AddTradeReadBalance(h, ok) ==
    /\ At(h, "add", "readBalance")
    /\ IF ok
       THEN /\ calls' = [calls EXCEPT
                   ![h].newBalance
                       = balanceAfterAdd(
                             accountRows[calls[h].accountId].current_balance,
                             calls[h].amount),
                   ![h].pc = "writeBalance"]
            /\ UNCHANGED journalError
       ELSE /\ journalError' = "Trade created but failed to get current balance"
            /\ Return(h)
    /\ UNCHANGED <<accountRows, tradeRows, lastTradeId, journalAccounts,
                   journalSelectedAccount, journalTrades, editingTradeId,
                   editTrade>>
    /\ UNCHANGED <<dashboardVars, sentimentVars, loadVars, teamRoomVars, pc>>

\* handleAddTrade from the update of current_balance to its end
AddTradeWriteBalance(h, ok) ==
    /\ At(h, "add", "writeBalance")
    /\ IF ok
       THEN /\ accountRows'
                   = [accountRows EXCEPT ![calls[h].accountId].current_balance
                          = toNumeric(calls[h].newBalance)]
            /\ journalAccounts'
                   = withBalance(calls[h].accounts, calls[h].accountId,
                                 toNumeric(calls[h].newBalance))
            /\ journalTrades' = <<calls[h].trade>> \o calls[h].trades
            /\ UNCHANGED journalError
       ELSE /\ journalError'
                   = "Trade created but failed to update account balance"
            /\ UNCHANGED <<accountRows, journalAccounts, journalTrades>>
    /\ Return(h)
    /\ UNCHANGED <<tradeRows, lastTradeId, journalSelectedAccount,
                   editingTradeId, editTrade>>
    /\ UNCHANGED <<dashboardVars, sentimentVars, loadVars, teamRoomVars, pc>>

\* handleEditTrade(trade), for a trade of the list on the page
HandleEditTrade(trade) ==
    /\ \E i \in 1..Len(journalTrades) : journalTrades[i] = trade
    /\ editingTradeId' = Some(trade.id)
    /\ editTrade' = editFormOf(trade)
    /\ UNCHANGED <<accountRows, tradeRows, lastTradeId, journalAccounts,
                   journalSelectedAccount, journalTrades, journalError, calls>>
    /\ UNCHANGED <<dashboardVars, sentimentVars, loadVars, teamRoomVars, pc>>

\* The forms one change of the position or of the P&L amount gives.
ChangedPositions(form) == {[form EXCEPT !.position = v] : v \in Positions}
ChangedAmounts(form, amounts) ==
    {[form EXCEPT !.pnl_amount = v] : v \in amounts}

\* The user changes one field of the edit form: setEditTrade({...editTrade,
\* field: value})
ChangeEditTrade(form) ==
    /\ editingTradeId # Null
    /\ form # editTrade
    /\ editTrade' = form
    /\ UNCHANGED <<accountRows, tradeRows, lastTradeId, journalAccounts,
                   journalSelectedAccount, journalTrades, editingTradeId,
                   journalError, calls>>
    /\ UNCHANGED <<dashboardVars, sentimentVars, loadVars, teamRoomVars, pc>>

\* trades.map(trade => trade.id === id ? updatedTrade : trade)
replaceTrade(ts, id, updatedTrade) ==
    [i \in 1..Len(ts) |-> IF ts[i].id = id THEN updatedTrade ELSE ts[i]]

\* The end of handleUpdateTrade: setTrades, setEditTrade,
\* setEditingTradeId(null)
UpdateTradeEnd(ts, id, updatedTrade) ==
    /\ journalTrades' = replaceTrade(ts, id, updatedTrade)
    /\ editTrade' = EmptyEditTrade
    /\ editingTradeId' = Null

\* handleUpdateTrade up to the update of the trade and, when the P&L
\* difference is 0, to its end; ok: the update succeeds
UpdateTradeUpdate(h, ok) ==
    /\ calls[h] = Null
    /\ LET data == tradeDataOf(editTrade)
           originalTrade == findTrade(journalTrades, editingTradeId[1])
           stored == tradeRows[editingTradeId[1]]
           updatedTrade == rowOf(stored.id, stored.trading_account_id, data)
           pnlDifference
               == pnlDifferenceOf(OrZeroAmount(data.pnl_amount),
                                  OrZeroAmount(originalTrade.pnl_amount))
           Unchanged == UNCHANGED <<tradeRows, journalTrades, editTrade,
                                    editingTradeId, calls>>
       IN  IF editingTradeId = Null
           THEN journalError' = "No trade selected for editing" /\ Unchanged
           ELSE IF editTrade.pair = <<>> \/ editTrade.entry_price = <<>>
           THEN journalError' = "Please fill in all required fields"
                    /\ Unchanged
           ELSE IF originalTrade = Null
           THEN journalError' = "Original trade not found" /\ Unchanged
           ELSE IF ~ok
           THEN journalError' = "Error updating trade" /\ Unchanged
           ELSE IF stored = Null
           THEN journalError' = "Trade update failed - no data returned"
                    /\ Unchanged
           ELSE /\ tradeRows' = [tradeRows EXCEPT ![stored.id] = updatedTrade]
                /\ journalError' = ""
                /\ IF pnlDifference # Zero
                   THEN /\ calls' = [calls EXCEPT ![h]
                                = callOf("update", editTrade.trading_account_id,
                                         updatedTrade, 0, pnlDifference)]
                        /\ UNCHANGED <<journalTrades, editTrade,
                                       editingTradeId>>
                   ELSE /\ UpdateTradeEnd(journalTrades, stored.id,
                                          updatedTrade)
                        /\ UNCHANGED calls
    /\ UNCHANGED <<accountRows, lastTradeId, journalAccounts,
                   journalSelectedAccount>>
    /\ UNCHANGED <<dashboardVars, sentimentVars, loadVars, teamRoomVars, pc>>

\* handleUpdateTrade: "Get fresh account balance"
UpdateTradeReadBalance(h, ok) ==
    /\ At(h, "update", "readBalance")
    /\ IF ok
       THEN /\ calls' = [calls EXCEPT
                   ![h].newBalance
                       = balanceAfterUpdate(
                             accountRows[calls[h].accountId].current_balance,
                             calls[h].difference),
                   ![h].pc = "writeBalance"]
            /\ UNCHANGED journalError
       ELSE /\ journalError' = "Trade updated but failed to get current balance"
            /\ Return(h)
    /\ UNCHANGED <<accountRows, tradeRows, lastTradeId, journalAccounts,
                   journalSelectedAccount, journalTrades, editingTradeId,
                   editTrade>>
    /\ UNCHANGED <<dashboardVars, sentimentVars, loadVars, teamRoomVars, pc>>

\* handleUpdateTrade from the update of current_balance to its end
UpdateTradeWriteBalance(h, ok) ==
    /\ At(h, "update", "writeBalance")
    /\ IF ok
       THEN /\ accountRows'
                   = [accountRows EXCEPT ![calls[h].accountId].current_balance
                          = toNumeric(calls[h].newBalance)]
            /\ journalAccounts'
                   = withBalance(calls[h].accounts, calls[h].accountId,
                                 toNumeric(calls[h].newBalance))
            /\ UpdateTradeEnd(calls[h].trades, calls[h].trade.id,
                              calls[h].trade)
            /\ UNCHANGED journalError
       ELSE /\ journalError'
                   = "Trade updated but failed to update account balance"
            /\ UNCHANGED <<accountRows, journalAccounts, journalTrades,
                           editTrade, editingTradeId>>
    /\ Return(h)
    /\ UNCHANGED <<tradeRows, lastTradeId, journalSelectedAccount>>
    /\ UNCHANGED <<dashboardVars, sentimentVars, loadVars, teamRoomVars, pc>>

\* trades.filter(trade => trade.id !== tradeId)
withoutTrade(ts, tradeId) == SelectSeq(ts, LAMBDA t : t.id # tradeId)

\* handleDeleteTrade(tradeId) up to the delete and, when the trade's P&L is
\* null or 0, to its end; ok: the delete succeeds
DeleteTradeDelete(h, tradeId, ok) ==
    /\ calls[h] = Null
    /\ LET tradeToDelete == findTrade(journalTrades, tradeId)
           tradePnL == OrZeroAmount(tradeToDelete.pnl_amount)
       IN  IF tradeToDelete = Null
           THEN /\ journalError' = "Trade not found"
                /\ UNCHANGED <<tradeRows, journalTrades, calls>>
           ELSE IF ~ok
           THEN /\ journalError' = "Error deleting trade"
                /\ UNCHANGED <<tradeRows, journalTrades, calls>>
           ELSE /\ tradeRows' = [tradeRows EXCEPT ![tradeId] = Null]
                /\ UNCHANGED journalError
                /\ IF tradePnL # 0
                   THEN /\ calls' = [calls EXCEPT ![h]
                                = callOf("delete",
                                         tradeToDelete.trading_account_id,
                                         tradeToDelete, tradePnL, Zero)]
                        /\ UNCHANGED journalTrades
                   ELSE /\ journalTrades' = withoutTrade(journalTrades, tradeId)
                        /\ UNCHANGED calls
    /\ UNCHANGED <<accountRows, lastTradeId, journalAccounts,
                   journalSelectedAccount, editingTradeId, editTrade>>
    /\ UNCHANGED <<dashboardVars, sentimentVars, loadVars, teamRoomVars, pc>>

\* handleDeleteTrade: "Get fresh account balance"
DeleteTradeReadBalance(h, ok) ==
    /\ At(h, "delete", "readBalance")
    /\ IF ok
       THEN /\ calls' = [calls EXCEPT
                   ![h].newBalance
                       = balanceAfterDelete(
                             accountRows[calls[h].accountId].current_balance,
                             calls[h].amount),
                   ![h].pc = "writeBalance"]
            /\ UNCHANGED journalError
       ELSE /\ journalError' = "Trade deleted but failed to get current balance"
            /\ Return(h)
    /\ UNCHANGED <<accountRows, tradeRows, lastTradeId, journalAccounts,
                   journalSelectedAccount, journalTrades, editingTradeId,
                   editTrade>>
    /\ UNCHANGED <<dashboardVars, sentimentVars, loadVars, teamRoomVars, pc>>

\* handleDeleteTrade from the update of current_balance to its end
DeleteTradeWriteBalance(h, ok) ==
    /\ At(h, "delete", "writeBalance")
    /\ IF ok
       THEN /\ accountRows'
                   = [accountRows EXCEPT ![calls[h].accountId].current_balance
                          = toNumeric(calls[h].newBalance)]
            /\ journalAccounts'
                   = withBalance(calls[h].accounts, calls[h].accountId,
                                 toNumeric(calls[h].newBalance))
            /\ journalTrades' = withoutTrade(calls[h].trades, calls[h].trade.id)
            /\ UNCHANGED journalError
       ELSE /\ journalError'
                   = "Trade deleted but failed to update account balance"
            /\ UNCHANGED <<accountRows, journalAccounts, journalTrades>>
    /\ Return(h)
    /\ UNCHANGED <<tradeRows, lastTradeId, journalSelectedAccount,
                   editingTradeId, editTrade>>
    /\ UNCHANGED <<dashboardVars, sentimentVars, loadVars, teamRoomVars, pc>>

\* The tables are empty and JournalPage is not mounted.
JournalInit ==
    /\ JournalUnmounted
    /\ DashboardUnmounted
    /\ TeamRoomUnmounted
    /\ trades = <<>>
    /\ accounts = <<[id |-> "a1", initial_balance |-> Num(1000, 1)]>>
    /\ selectedAccount = "a1"
    /\ timeframe = "30d"
    /\ now = ToTime(NowDay)
    /\ metrics = NullMetrics
    /\ chartData = <<>>
    /\ dailyPnL = <<>>
    /\ dashboardMetrics = NullMetrics
    /\ sentimentText = <<>>
    /\ articleTitle = <<>>
    /\ articleSummary = <<>>
    /\ cleanText = <<>>
    /\ baselineScores = Null
    /\ keywordBoost = Zero
    /\ vader_sentiment = Null
    /\ formatted = <<>>
    /\ icon = ""
    /\ pc = "start"

\* One client, one call at a time, every query succeeding: the runs that
\* follow the balances of two accounts over two trades.
JournalNext ==
    \/ \E balance \in BalanceInputs : HandleAddAccount(balance)
    \/ CheckUser
    \/ \E i \in 1..Len(AccountIds) : HandleAccountChange(AccountIds[i])
    \/ \E form \in BalanceForms : AddTradeInsert("h1", form, TRUE)
    \/ AddTradeReadBalance("h1", TRUE)
    \/ AddTradeWriteBalance("h1", TRUE)
    \/ \E i \in 1..Len(journalTrades) : HandleEditTrade(journalTrades[i])
    \/ \E form \in ChangedAmounts(editTrade, BalanceAmounts) :
           ChangeEditTrade(form)
    \/ UpdateTradeUpdate("h1", TRUE)
    \/ UpdateTradeReadBalance("h1", TRUE)
    \/ UpdateTradeWriteBalance("h1", TRUE)
    \/ \E i \in 1..Len(journalTrades) :
           DeleteTradeDelete("h1", journalTrades[i].id, TRUE)
    \/ DeleteTradeReadBalance("h1", TRUE)
    \/ DeleteTradeWriteBalance("h1", TRUE)

SpecJournal == JournalInit /\ [][JournalNext]_vars

\* The state after handleAddAccount has created the first account with a
\* balance of 1 and JournalPage has been mounted.
JournalMounted ==
    /\ accountRows
           = [a \in {AccountIds[i] : i \in 1..Len(AccountIds)} |->
                 IF a = AccountIds[1]
                 THEN [initial_balance |-> Hundred, current_balance |-> Hundred]
                 ELSE Null]
    /\ tradeRows = [id \in 1..MaxJournalTrades |-> Null]
    /\ lastTradeId = 0
    /\ journalAccounts
           = <<[id |-> AccountIds[1], current_balance |-> Hundred]>>
    /\ journalSelectedAccount = AccountIds[1]
    /\ journalTrades = <<>>
    /\ editingTradeId = Null
    /\ editTrade = EmptyEditTrade
    /\ journalError = ""
    /\ calls = [h \in Handlers |-> Null]
    /\ DashboardUnmounted
    /\ TeamRoomUnmounted
    /\ trades = <<>>
    /\ accounts = <<[id |-> "a1", initial_balance |-> Num(1000, 1)]>>
    /\ selectedAccount = "a1"
    /\ timeframe = "30d"
    /\ now = ToTime(NowDay)
    /\ metrics = NullMetrics
    /\ chartData = <<>>
    /\ dailyPnL = <<>>
    /\ dashboardMetrics = NullMetrics
    /\ sentimentText = <<>>
    /\ articleTitle = <<>>
    /\ articleSummary = <<>>
    /\ cleanText = <<>>
    /\ baselineScores = Null
    /\ keywordBoost = Zero
    /\ vader_sentiment = Null
    /\ formatted = <<>>
    /\ icon = ""
    /\ pc = "start"

\* The form of a trade without an exit price that won 0.01.
WinForm ==
    [date |-> DateInput, pair |-> <<"E", "U">>, position |-> "Long",
     entry_price |-> EntryInput, exit_price |-> <<>>,
     pnl_amount |-> <<"0", ".", "0", "1">>]

\* Two calls at a time: the user submits the form of a new trade or deletes
\* a trade while an earlier call awaits a query; every query succeeds.
JournalRaceNext ==
    \/ \E h \in Handlers : AddTradeInsert(h, WinForm, TRUE)
    \/ \E h \in Handlers : AddTradeReadBalance(h, TRUE)
    \/ \E h \in Handlers : AddTradeWriteBalance(h, TRUE)
    \/ \E h \in Handlers : \E i \in 1..Len(journalTrades) :
           DeleteTradeDelete(h, journalTrades[i].id, TRUE)
    \/ \E h \in Handlers : DeleteTradeReadBalance(h, TRUE)
    \/ \E h \in Handlers : DeleteTradeWriteBalance(h, TRUE)

SpecJournalRace == JournalMounted /\ [][JournalRaceNext]_vars

\* One call at a time over one trade, with every value of the two forms;
\* any query may fail.
JournalTradeNext ==
    \/ \E form \in NewTradeForms, ok \in BOOLEAN :
           lastTradeId < MaxFormTrades /\ AddTradeInsert("h1", form, ok)
    \/ \E ok \in BOOLEAN : AddTradeReadBalance("h1", ok)
    \/ \E ok \in BOOLEAN : AddTradeWriteBalance("h1", ok)
    \/ \E i \in 1..Len(journalTrades) : HandleEditTrade(journalTrades[i])
    \/ \E form \in ChangedPositions(editTrade)
                        \cup ChangedAmounts(editTrade, PnlInputs) :
           ChangeEditTrade(form)
    \/ \E ok \in BOOLEAN : UpdateTradeUpdate("h1", ok)
    \/ \E ok \in BOOLEAN : UpdateTradeReadBalance("h1", ok)
    \/ \E ok \in BOOLEAN : UpdateTradeWriteBalance("h1", ok)
    \/ \E i \in 1..Len(journalTrades), ok \in BOOLEAN :
           DeleteTradeDelete("h1", journalTrades[i].id, ok)
    \/ \E ok \in BOOLEAN : DeleteTradeReadBalance("h1", ok)
    \/ \E ok \in BOOLEAN : DeleteTradeWriteBalance("h1", ok)

SpecJournalTrade == JournalMounted /\ [][JournalTradeNext]_vars

(***************************************************************************)
(* The dashboard page: its accounts, its loadTrades requests and the       *)
(* effect that recomputes what it shows.                                   *)
(***************************************************************************)
\* The rows checkUser reads from trading_accounts, the newest first.
DashboardAccounts ==
    <<[id |-> "a2", initial_balance |-> Num(500, 1)],
      [id |-> "a1", initial_balance |-> Num(1000, 1)]>>

\* A row of table trades, as far as the dashboard uses it.
TradeOf(date, pnl) == [date |-> date, pnl_amount |-> pnl]

\* What table trades may hold for the first account, ordered by date: no
\* trade, an open trade, a win, a win and a loss.
FirstAccountTrades ==
    {<<>>,
     <<TradeOf(NowDay - 8, Null)>>,
     <<TradeOf(NowDay - 8, Num(1, 1))>>,
     <<TradeOf(NowDay - 8, Num(1, 1)), TradeOf(NowDay - 7, Num(-1, 1))>>}

\* What it may hold for the second account.
SecondAccountTrades == {<<>>, <<TradeOf(NowDay - 7, Num(999, 1))>>}

\* The values of the item selectedTradingAccount: not set, an account of the
\* user, an account the user does not have.
SavedAccounts == {"", "a1", "a2", "a3"}

\* DashboardPage after construction.
DashboardInit ==
    /\ trades = <<>>
    /\ accounts = <<>>
    /\ selectedAccount = ""
    /\ timeframe = "30d"
    /\ now = ToTime(NowDay)
    /\ metrics = NullMetrics
    /\ chartData = <<>>
    /\ dailyPnL = <<>>
    /\ dashboardMetrics = NullMetrics
    /\ \E first \in FirstAccountTrades, second \in SecondAccountTrades :
           tradesTable = [a \in DashboardAccountIds |->
                             IF a = "a1" THEN first ELSE second]
    /\ localStorage \in SavedAccounts
    /\ loads = <<>>
    /\ sentimentText = <<>>
    /\ articleTitle = <<>>
    /\ articleSummary = <<>>
    /\ cleanText = <<>>
    /\ baselineScores = Null
    /\ keywordBoost = Zero
    /\ vader_sentiment = Null
    /\ formatted = <<>>
    /\ icon = ""
    /\ JournalUnmounted
    /\ TeamRoomUnmounted
    /\ pc = "start"

\* The effect on [trades, selectedAccount, timeframe], run with the values
\* ts, accs, selected and tf of the render that follows a change of state.
RecomputeEffect(ts, accs, selected, tf) ==
    IF Len(ts) > 0 /\ selected # ""
    THEN /\ metrics' = calculateMetrics(ts)
         /\ chartData' = generateChartData(ts, accs, selected, tf, now,
                                           chartData)
         /\ dailyPnL' = calculateDailyPnL(ts)
    ELSE UNCHANGED <<metrics, chartData, dailyPnL>>

\* A loadTrades call that has sent its query.
loadOf(accountId) == [accountId |-> accountId, state |-> "pending"]

\* The account the effect on [accounts] selects: the saved one if the user
\* has it, the first one otherwise; "" if it selects none.
accountToSelect(accs, saved, selected) ==
    IF saved # "" /\ Len(accs) > 0
    THEN IF findAccount(accs, saved, 1) # 0 THEN saved ELSE accs[1].id
    ELSE IF Len(accs) > 0 /\ selected = "" THEN accs[1].id
    ELSE ""

\* checkUser to its end, and the effects that follow setAccounts.
DashboardCheckUser(ok) ==
    /\ pc = "start"
    /\ pc' = "checkUser"
    /\ IF ok
       THEN LET chosen == accountToSelect(DashboardAccounts, localStorage,
                                          selectedAccount)
            IN  /\ accounts' = DashboardAccounts
                /\ selectedAccount' = chosen
                /\ localStorage' = IF chosen # localStorage
                                   THEN chosen ELSE localStorage
                /\ loads' = Append(loads, loadOf(chosen))
                /\ RecomputeEffect(trades, DashboardAccounts, chosen,
                                   timeframe)
       ELSE UNCHANGED <<accounts, selectedAccount, localStorage, loads,
                        metrics, chartData, dailyPnL>>
    /\ UNCHANGED <<trades, timeframe, now, dashboardMetrics, tradesTable>>
    /\ UNCHANGED <<sentimentVars, journalVars, teamRoomVars>>

\* handleAccountChange(accountId), from the account select, and the effect
\* that follows setSelectedAccount.
DashboardHandleAccountChange(accountId) ==
    /\ findAccount(accounts, accountId, 1) # 0
    /\ accountId # selectedAccount
    /\ Len(loads) < MaxLoads
    /\ selectedAccount' = accountId
    /\ localStorage' = accountId
    /\ loads' = Append(loads, loadOf(accountId))
    /\ RecomputeEffect(trades, accounts, accountId, timeframe)
    /\ UNCHANGED <<trades, accounts, timeframe, now, dashboardMetrics,
                   tradesTable>>
    /\ UNCHANGED <<sentimentVars, journalVars, teamRoomVars, pc>>

\* The query of the i-th loadTrades call returns: setTrades(tradesData || [])
\* and the effect that follows it, or console.error.
LoadTradesResponse(i, ok) ==
    /\ i \in 1..Len(loads)
    /\ loads[i].state = "pending"
    /\ IF ok
       THEN /\ trades' = tradesTable[loads[i].accountId]
            /\ loads' = [loads EXCEPT ![i].state = "done"]
            /\ RecomputeEffect(tradesTable[loads[i].accountId], accounts,
                               selectedAccount, timeframe)
       ELSE /\ loads' = [loads EXCEPT ![i].state = "failed"]
            /\ UNCHANGED <<trades, metrics, chartData, dailyPnL>>
    /\ UNCHANGED <<accounts, selectedAccount, timeframe, now,
                   dashboardMetrics, tradesTable, localStorage>>
    /\ UNCHANGED <<sentimentVars, journalVars, teamRoomVars, pc>>

\* setTimeframe(value), from the timeframe select, and the effect that
\* follows it.
SetTimeframe(value) ==
    /\ pc = "checkUser"
    /\ value # timeframe
    /\ timeframe' = value
    /\ RecomputeEffect(trades, accounts, selectedAccount, value)
    /\ UNCHANGED <<trades, accounts, selectedAccount, now, dashboardMetrics>>
    /\ UNCHANGED <<sentimentVars, journalVars, loadVars, teamRoomVars, pc>>

DashboardNext ==
    \/ \E ok \in BOOLEAN : DashboardCheckUser(ok)
    \/ \E accountId \in DashboardAccountIds :
           DashboardHandleAccountChange(accountId)
    \/ \E i \in 1..MaxLoads, ok \in BOOLEAN : LoadTradesResponse(i, ok)
    \/ \E value \in Timeframes : SetTimeframe(value)

SpecDashboard == DashboardInit /\ [][DashboardNext]_vars

(***************************************************************************)
(* The team room: the effect on [teamId], initializeTeamRoom step by step  *)
(* and the timer that polls for messages.                                  *)
(***************************************************************************)
\* No page is mounted and nothing has been computed.
TeamRoomInit ==
    /\ TeamRoomUnmounted
    /\ DashboardUnmounted
    /\ JournalUnmounted
    /\ trades = <<>>
    /\ accounts = <<[id |-> "a1", initial_balance |-> Num(1000, 1)]>>
    /\ selectedAccount = "a1"
    /\ timeframe = "30d"
    /\ now = ToTime(NowDay)
    /\ metrics = NullMetrics
    /\ chartData = <<>>
    /\ dailyPnL = <<>>
    /\ dashboardMetrics = NullMetrics
    /\ sentimentText = <<>>
    /\ articleTitle = <<>>
    /\ articleSummary = <<>>
    /\ cleanText = <<>>
    /\ baselineScores = Null
    /\ keywordBoost = Zero
    /\ vader_sentiment = Null
    /\ formatted = <<>>
    /\ icon = ""
    /\ pc = "start"

\* An initializeTeamRoom call of instance r, rendered with teamId t, that
\* waits for supabase.auth.getUser().
initOf(r, t) == [room |-> r, teamId |-> t, step |-> "getUser"]

\* clearInterval(ref.current) if ref.current is set: the timers that stay.
clearInterval(timers, ref) ==
    IF ref # Null THEN {iv \in timers : iv.id # ref[1]} ELSE timers

\* What the state unchanged by the team room is.
TeamRoomOnly == UNCHANGED <<dashboardVars, sentimentVars, journalVars,
                            loadVars, pc>>

\* TeamRoomPage is mounted for team t: the effect on [teamId] calls
\* initializeTeamRoom, which runs to its first await.
MountTeamRoom(t) ==
    /\ room = 0
    /\ lastRoom < MaxMounts
    /\ Len(inits) < MaxInits
    /\ room' = lastRoom + 1
    /\ lastRoom' = lastRoom + 1
    /\ teamId' = t
    /\ messages' = ""
    /\ inits' = Append(inits, initOf(lastRoom + 1, t))
    /\ UNCHANGED <<pollIntervalRef, intervals, lastIntervalId>>
    /\ TeamRoomOnly

\* params.teamId changes to t: the cleanup of the effect runs, then the
\* effect calls initializeTeamRoom again.
ChangeTeamId(t) ==
    /\ room # 0
    /\ t # teamId
    /\ Len(inits) < MaxInits
    /\ intervals' = clearInterval(intervals, pollIntervalRef[room])
    /\ teamId' = t
    /\ inits' = Append(inits, initOf(room, t))
    /\ UNCHANGED <<room, lastRoom, pollIntervalRef, lastIntervalId, messages>>
    /\ TeamRoomOnly

\* TeamRoomPage is unmounted: the cleanup of the effect runs.
UnmountTeamRoom ==
    /\ room # 0
    /\ intervals' = clearInterval(intervals, pollIntervalRef[room])
    /\ room' = 0
    /\ teamId' = ""
    /\ UNCHANGED <<lastRoom, pollIntervalRef, lastIntervalId, inits, messages>>
    /\ TeamRoomOnly

\* The i-th initializeTeamRoom call moves from one await to the next, or
\* returns early.
InitStep(i, from, to) ==
    /\ i \in 1..Len(inits)
    /\ inits[i].step = from
    /\ inits' = [inits EXCEPT ![i].step = to]
    /\ UNCHANGED <<teamId, room, lastRoom, pollIntervalRef, intervals,
                   lastIntervalId, messages>>
    /\ TeamRoomOnly

\* supabase.auth.getUser() returns
InitGetUser(i, ok) ==
    InitStep(i, "getUser", IF ok THEN "profile" ELSE "failed")

\* the query of profiles returns
InitProfile(i) == InitStep(i, "profile", "membership")

\* the query of team_members for the membership returns
InitMembership(i, ok) ==
    InitStep(i, "membership", IF ok THEN "members" ELSE "failed")

\* the query of team_members for the members returns
InitMembers(i) == InitStep(i, "members", "loadMessages")

\* await loadMessages() returns, having stored the messages of the team of
\* its render if its instance is mounted; then startPolling() clears the
\* timer in pollIntervalRef and sets a new one.
InitLoadMessages(i) ==
    /\ i \in 1..Len(inits)
    /\ inits[i].step = "loadMessages"
    /\ inits' = [inits EXCEPT ![i].step = "done"]
    /\ messages' = IF inits[i].room = room THEN inits[i].teamId ELSE messages
    /\ lastIntervalId' = lastIntervalId + 1
    /\ intervals' = clearInterval(intervals, pollIntervalRef[inits[i].room])
                        \cup {[id |-> lastIntervalId + 1,
                               room |-> inits[i].room,
                               teamId |-> inits[i].teamId]}
    /\ pollIntervalRef'
           = [pollIntervalRef EXCEPT ![inits[i].room] = Some(lastIntervalId + 1)]
    /\ UNCHANGED <<teamId, room, lastRoom>>
    /\ TeamRoomOnly

\* A timer fires: loadMessages of the render that set it stores the messages
\* of its team if its instance is mounted.
PollTick(iv) ==
    /\ iv \in intervals
    /\ iv.room = room
    /\ messages' = iv.teamId
    /\ UNCHANGED <<teamId, room, lastRoom, pollIntervalRef, intervals,
                   lastIntervalId, inits>>
    /\ TeamRoomOnly

TeamRoomNext ==
    \/ \E t \in TeamIds : MountTeamRoom(t)
    \/ \E t \in TeamIds : ChangeTeamId(t)
    \/ UnmountTeamRoom
    \/ \E i \in 1..MaxInits, ok \in BOOLEAN : InitGetUser(i, ok)
    \/ \E i \in 1..MaxInits : InitProfile(i)
    \/ \E i \in 1..MaxInits, ok \in BOOLEAN : InitMembership(i, ok)
    \/ \E i \in 1..MaxInits : InitMembers(i)
    \/ \E i \in 1..MaxInits : InitLoadMessages(i)
    \/ \E iv \in intervals : PollTick(iv)

SpecTeamRoom == TeamRoomInit /\ [][TeamRoomNext]_vars

(***************************************************************************)
(* Properties of the metrics                                               *)
(***************************************************************************)
\* Positions of the completed trades, and of those won, lost and even.
Completed(ts) == {i \in 1..Len(ts) : ts[i].pnl_amount # Null}
Won(ts) == {i \in Completed(ts) : ts[i].pnl_amount[1] > 0}
Lost(ts) == {i \in Completed(ts) : ts[i].pnl_amount[1] < 0}
Even(ts) == {i \in Completed(ts) : ts[i].pnl_amount[1] = 0}

\* Sum of the pnl_amounts at the positions in I, added in list order.
RECURSIVE SumAt(_, _, _, _)
SumAt(acc, ts, I, i) ==
    IF i > Len(ts) THEN acc
    ELSE SumAt(IF i \in I THEN FAdd(acc, ts[i].pnl_amount) ELSE acc,
               ts, I, i + 1)

GrossWin(ts) == SumAt(Zero, ts, Won(ts), 1)
GrossLoss(ts) == FAbs(SumAt(Zero, ts, Lost(ts), 1))

\* The counts of a metrics struct m agree with the trade list ts.
CountsAgree(m, ts) ==
    /\ m.winningTrades + m.losingTrades <= m.totalTrades
    /\ m.totalTrades - m.winningTrades - m.losingTrades
           = Cardinality(Even(ts))

\* C1: in every metrics struct computed from a trade list, winningTrades +
\* losingTrades <= totalTrades, and totalTrades - winningTrades -
\* losingTrades is the number of completed trades whose pnl_amount is 0.
C1_CountsPartition ==
    /\ (MetricsDone /\ metrics # NullMetrics) => CountsAgree(metrics, trades)
    /\ DashboardMetricsDone => CountsAgree(dashboardMetrics, trades)

\* A list with a win, a loss and a breakeven trade has been measured.
C1_Witness ==
    /\ DashboardMetricsDone
    /\ Won(trades) # {} /\ Lost(trades) # {} /\ Even(trades) # {}
    /\ metrics.totalTrades = 3 /\ dashboardMetrics.totalTrades = 3

\* winRate of m is 0 exactly when ts has no completed trade, and is
\* 100 * winningTrades / totalTrades when it has one.
WinRateAsClaimed(m, ts) ==
    /\ (m.winRate = Zero) <=> (Completed(ts) = {})
    /\ Completed(ts) # {} =>
           m.winRate = Round(100 * Cardinality(Won(ts)),
                             Cardinality(Completed(ts)), 0)

\* C2 as stated: winRate = 0 if and only if no trade is completed, and
\* otherwise winRate = 100 * winningTrades / totalTrades.
C2_Original ==
    /\ (MetricsDone /\ metrics # NullMetrics) => WinRateAsClaimed(metrics, trades)
    /\ DashboardMetricsDone => WinRateAsClaimed(dashboardMetrics, trades)

\* x, a number >= 0, is within the rounding error of two operations of the
\* exact quotient n / d:  |x - n/d| * 2^(Precision - 2) <= n/d.
WithinRounding(x, n, d) ==
    IF n = 0 THEN x = Zero
    ELSE LET k == IF x[2] < 0 THEN -x[2] ELSE 0
             u == IF x[2] > 0 THEN x[2] ELSE 0
         IN  Abs(x[1] * Pow2(u) * d - n * Pow2(k)) * Pow2(Precision - 2)
                 <= n * Pow2(k)

\* winRate of m is 0 exactly when ts has no winning trade; with a completed
\* trade it is the product (winningTrades / totalTrades) * 100 as the number
\* type evaluates it, which is 100 * winningTrades / totalTrades up to
\* rounding.
WinRateAmended(m, ts) ==
    /\ (m.winRate = Zero) <=> (Won(ts) = {})
    /\ Completed(ts) # {} =>
           /\ m.winRate = FMul(FDiv(Num(Cardinality(Won(ts)), 1),
                                    Num(Cardinality(Completed(ts)), 1)),
                               Num(100, 1))
           /\ WithinRounding(m.winRate, 100 * Cardinality(Won(ts)),
                             Cardinality(Completed(ts)))

\* C2, amended: winRate = 0 if and only if no completed trade has a
\* positive pnl_amount (so also when no trade is completed); with at least
\* one completed trade winRate is (winningTrades / totalTrades) * 100.
C2_WinRate ==
    /\ (MetricsDone /\ metrics # NullMetrics) => WinRateAmended(metrics, trades)
    /\ DashboardMetricsDone => WinRateAmended(dashboardMetrics, trades)

\* Lists with only losing trades, and lists with one win in three, measured.
C2_Witness ==
    /\ DashboardMetricsDone
    /\ Cardinality(Completed(trades)) = 3
    /\ Cardinality(Won(trades)) = 1
    /\ metrics.winRate # Zero /\ dashboardMetrics.winRate # Zero

\* profitFactor of m is 999 exactly when there is no loss and some win.
SentinelAsClaimed(m, ts) ==
    (m.profitFactor = Num(999, 1))
        <=> (GrossLoss(ts) = Zero /\ FGt(GrossWin(ts), Zero))

\* C3 as stated: profitFactor is 999 if and only if grossLoss = 0 and
\* grossWin > 0.
C3_Original ==
    /\ (MetricsDone /\ metrics # NullMetrics) => SentinelAsClaimed(metrics, trades)
    /\ DashboardMetricsDone => SentinelAsClaimed(dashboardMetrics, trades)

\* profitFactor of m is 999 exactly when there is no loss and some win, or
\* there is a loss and the quotient grossWin / grossLoss is itself 999.
SentinelAmended(m, ts) ==
    (m.profitFactor = Num(999, 1))
        <=> \/ GrossLoss(ts) = Zero /\ FGt(GrossWin(ts), Zero)
            \/ /\ FGt(GrossLoss(ts), Zero)
               /\ FDiv(GrossWin(ts), GrossLoss(ts)) = Num(999, 1)

\* C3, amended: profitFactor is 999 if and only if either grossLoss = 0 and
\* grossWin > 0, or grossLoss > 0 and grossWin / grossLoss equals 999.
C3_Sentinel ==
    /\ (MetricsDone /\ metrics # NullMetrics) => SentinelAmended(metrics, trades)
    /\ DashboardMetricsDone => SentinelAmended(dashboardMetrics, trades)

\* Wins without a loss have been measured as 999.
C3_Witness ==
    /\ DashboardMetricsDone
    /\ Lost(trades) = {} /\ Cardinality(Won(trades)) >= 2
    /\ metrics.profitFactor = Num(999, 1)
    /\ dashboardMetrics.profitFactor = Num(999, 1)

\* profitFactor of m is 0 exactly when ts has no win.
ZeroFactorIffNoWin(m, ts) ==
    (m.profitFactor = Zero) <=> (GrossWin(ts) = Zero)

\* C4: profitFactor is 0 if and only if grossWin = 0, that is no completed
\* trade has a positive pnl_amount, with or without losing trades.
C4_ZeroProfitFactor ==
    /\ (MetricsDone /\ metrics # NullMetrics) => ZeroFactorIffNoWin(metrics, trades)
    /\ DashboardMetricsDone => ZeroFactorIffNoWin(dashboardMetrics, trades)

\* Losses without a win have been measured as 0.
C4_Witness ==
    /\ DashboardMetricsDone
    /\ Won(trades) = {} /\ Lost(trades) # {}
    /\ metrics.profitFactor = Zero /\ dashboardMetrics.profitFactor = Zero

\* C5 as stated: with no completed trade (the empty list included) the
\* metrics computation yields the struct with every field 0, never null.
C5_AllZeroNeverNull ==
    /\ (MetricsDone /\ Completed(trades) = {}) => metrics = ZeroMetrics
    /\ (DashboardMetricsDone /\ Completed(trades) = {})
           => dashboardMetrics = ZeroDashboardMetrics

\* The trade list without its incomplete trades, order kept.
RECURSIVE WithoutIncomplete(_)
WithoutIncomplete(ts) ==
    IF ts = <<>> THEN <<>>
    ELSE IF Head(ts).pnl_amount = Null THEN WithoutIncomplete(Tail(ts))
    ELSE <<Head(ts)>> \o WithoutIncomplete(Tail(ts))

\* C6 as stated: the metrics and the daily P&L of a list are those of the
\* list with the trades whose pnl_amount is null removed.
C6_IncompleteIgnored ==
    /\ MetricsDone => metrics = calculateMetrics(WithoutIncomplete(trades))
    /\ DailyDone => dailyPnL = calculateDailyPnL(WithoutIncomplete(trades))
    /\ DashboardMetricsDone =>
           dashboardMetrics = calculateDashboardMetrics(WithoutIncomplete(trades))

\* All completed trades of ts have the same pnl_amount.
Identical(ts) ==
    \A i, j \in Completed(ts) : ts[i].pnl_amount = ts[j].pnl_amount

\* C7 as stated: sharpeRatio is 0 with 0 or 1 completed trades and with
\* identical completed pnl_amounts; it is non-zero only with two differing
\* completed pnl_amounts and a non-zero mean.
C7_SharpeZero ==
    (MetricsDone /\ metrics # NullMetrics) =>
        /\ Cardinality(Completed(trades)) <= 1 => metrics.sharpeRatio = Zero
        /\ Identical(trades) => metrics.sharpeRatio = Zero
        /\ metrics.sharpeRatio # Zero =>
               /\ ~Identical(trades)
               /\ SumAt(Zero, trades, Completed(trades), 1) # Zero

(***************************************************************************)
(* Properties of the equity curve                                          *)
(***************************************************************************)
\* The dates of the points never decrease along the curve.
DatesAscend(data) ==
    \A i, j \in 1..Len(data) : i < j => data[i].date <= data[j].date

\* The trades are in ascending date order, as loadTrades asks the database
\* to return them: .order('date', { ascending: true }).
SortedByDate(ts) ==
    \A i, j \in 1..Len(ts) : i < j => ts[i].date <= ts[j].date

\* C8 as stated: for every trade list, in any input order, the dates of the
\* emitted points are in non-decreasing order.
C8_Original == ChartDone => DatesAscend(chartData)

\* C8, amended: for every trade list in ascending date order, the dates of
\* the emitted points, the synthetic one first, are in non-decreasing order.
C8_DatesAscend ==
    (ChartDone /\ SortedByDate(trades)) => DatesAscend(chartData)

\* A curve over sorted trades of two different dates has been generated.
C8_Witness ==
    /\ ChartDone
    /\ SortedByDate(trades)
    /\ Len(chartData) >= 3
    /\ chartData[2].date < chartData[3].date

\* Positions of the completed trades dated on or after the cutoff instant.
Included(ts, cutoff) == {i \in Completed(ts) : ToTime(ts[i].date) >= cutoff}

\* initial_balance of the selected account.
SelectedInitialBalance ==
    accounts[CHOOSE i \in 1..Len(accounts) : accounts[i].id = selectedAccount]
        .initial_balance

\* C9: cumulativePnL at the last point of the curve is the sum of pnl_amount
\* over the completed trades dated on or after the cutoff, 0 when there are
\* none; only the empty trade list gives a curve without a last point.
C9_LastCumulative ==
    ChartDone =>
        IF chartData = <<>> THEN trades = <<>>
        ELSE chartData[Len(chartData)].cumulativePnL
                 = SumAt(Zero, trades,
                         Included(trades, cutoffDate(timeframe, now)), 1)

\* A curve has been generated from a list with a completed trade before the
\* cutoff, a completed trade after it and an incomplete trade after it.
C9_Witness ==
    /\ ChartDone
    /\ \E i \in Completed(trades) :
           ToTime(trades[i].date) < cutoffDate(timeframe, now)
    /\ \E i \in 1..Len(trades) :
           /\ trades[i].pnl_amount = Null
           /\ ToTime(trades[i].date) >= cutoffDate(timeframe, now)
    /\ Included(trades, cutoffDate(timeframe, now)) # {}
    /\ chartData[Len(chartData)].cumulativePnL # Zero

\* C10: every point has balance = initialBalance + cumulativePnL, and every
\* trade point has cumulativePnL = the previous point's cumulativePnL + its
\* own pnl.
C10_Balance ==
    ChartDone =>
        \A i \in 1..Len(chartData) :
            /\ chartData[i].balance
                   = FAdd(SelectedInitialBalance, chartData[i].cumulativePnL)
            /\ chartData[i].pnl # Null =>
                   /\ i > 1
                   /\ chartData[i].cumulativePnL
                          = FAdd(chartData[i - 1].cumulativePnL, chartData[i].pnl)

\* A curve with two trade points and a running total that is not 0.
C10_Witness ==
    /\ ChartDone
    /\ Len(chartData) >= 3
    /\ chartData[3].cumulativePnL # Zero
    /\ chartData[3].cumulativePnL # chartData[3].pnl

\* Positions of the trades dated on or after the cutoff instant, completed
\* or not: the trades the filter lets through.
PassFilter(ts, cutoff) == {i \in 1..Len(ts) : ToTime(ts[i].date) >= cutoff}

\* The least position of a non-empty set of positions.
FirstOf(I) == CHOOSE i \in I : \A j \in I : i <= j

\* C11 as stated: for every trade list, the empty one included, the curve
\* begins with one synthetic point with balance = initialBalance, no pnl and
\* cumulativePnL = 0, dated one day before the first trade let through (the
\* cutoff date when none is); no other point lacks a pnl.
C11_SyntheticFirst ==
    ChartDone =>
        LET cutoff == cutoffDate(timeframe, now)
            passed == PassFilter(trades, cutoff)
        IN  /\ Len(chartData) >= 1
            /\ chartData[1]
                   = [date |-> IF passed = {} THEN ToDay(cutoff)
                               ELSE trades[FirstOf(passed)].date - 1,
                      balance |-> SelectedInitialBalance,
                      pnl |-> Null,
                      cumulativePnL |-> Zero]
            /\ \A i \in 2..Len(chartData) : chartData[i].pnl # Null

\* The points of the curve that carry a pnl.
TradePointsOf(data) == SelectSeq(data, LAMBDA p : p.pnl # Null)

\* The k-th position, in ascending order, of a set of positions.
NthOf(I, k) == CHOOSE i \in I : Cardinality({j \in I : j < i}) = k - 1

\* C12: the points that carry a pnl are, in input order, one per completed
\* trade dated on or after the cutoff, each with that trade's date and pnl and
\* with cumulativePnL = the sum over those trades up to it; trades before the
\* cutoff and trades without pnl_amount add no point and nothing to the sum.
C12_OnePointPerTrade ==
    ChartDone =>
        LET inc == Included(trades, cutoffDate(timeframe, now))
            points == TradePointsOf(chartData)
        IN  /\ Len(points) = Cardinality(inc)
            /\ Len(chartData) <= Len(points) + 1
            /\ \A k \in 1..Len(points) :
                   LET i == NthOf(inc, k)
                   IN  /\ points[k].date = trades[i].date
                       /\ points[k].pnl = trades[i].pnl_amount
                       /\ points[k].cumulativePnL
                              = SumAt(Zero, trades, {j \in inc : j <= i}, 1)

\* A curve with two trade points has been generated from three trades, one of
\* them left out by the cutoff or for want of a pnl_amount.
C12_Witness ==
    /\ ChartDone
    /\ Len(trades) = 3
    /\ Len(chartData) = 3
    /\ chartData[2].date # chartData[3].date
    /\ chartData[3].cumulativePnL # Zero

(***************************************************************************)
(* Properties of the daily P&L                                             *)
(***************************************************************************)
\* Positions of the completed trades of one date.
CompletedOn(ts, date) == {i \in Completed(ts) : ts[i].date = date}

\* The dates that have a completed trade.
CompletedDates(ts) == {ts[i].date : i \in Completed(ts)}

\* C13 as stated: the daily P&L has exactly one entry per date with a
\* completed trade and none for a date without one; the entry's pnl is the
\* sum of that date's completed pnl_amounts and its tradeCount the number of
\* that date's completed trades.
C13_DailyEntries ==
    DailyDone =>
        /\ Len(dailyPnL) = Cardinality(CompletedDates(trades))
        /\ \A d \in CompletedDates(trades) :
               \E k \in 1..Len(dailyPnL) :
                   /\ DOMAIN dailyPnL[k] = {"date", "pnl", "tradeCount"}
                   /\ dailyPnL[k].date = d
                   /\ dailyPnL[k].pnl
                          = SumAt(Zero, trades, CompletedOn(trades, d), 1)
                   /\ dailyPnL[k].tradeCount
                          = Cardinality(CompletedOn(trades, d))

(***************************************************************************)
(* Properties of the sentiment functions                                   *)
(***************************************************************************)
\* x >= y for two numbers, by their exact values.
AtLeast(x, y) ==
    LET e == IF x[2] < y[2] THEN x[2] ELSE y[2]
    IN  x[1] * Pow2(x[2] - e) >= y[1] * Pow2(y[2] - e)

\* The label and color that go with a compound score.
Agrees(r) ==
    /\ (r.label = "Bullish" /\ r.color = "positive")
           <=> AtLeast(r.compound, Threshold)
    /\ (r.label = "Bearish" /\ r.color = "negative")
           <=> AtLeast(Neg(Threshold), r.compound)
    /\ (r.label = "Neutral" /\ r.color = "neutral")
           <=> (~AtLeast(r.compound, Threshold)
                   /\ ~AtLeast(Neg(Threshold), r.compound))
    /\ <<r.label, r.color>> \in {<<"Bullish", "positive">>,
                                 <<"Bearish", "negative">>,
                                 <<"Neutral", "neutral">>}

\* C14: every result of analyzeSentiment and of analyzeFinancialSentiment has
\* Bullish/positive exactly when its compound >= 0.05, Bearish/negative
\* exactly when its compound <= -0.05 and Neutral/neutral otherwise; label
\* and color never disagree.
C14_LabelColor == Analyzed => Agrees(vader_sentiment)

\* The boost has turned a baseline that stood on the bullish threshold into a
\* bearish result.
C14_Witness ==
    /\ FinancialAnalyzed
    /\ baselineScores.compound = Threshold
    /\ vader_sentiment.label = "Bearish"

\* C15: the compound analyzeFinancialSentiment returns is
\* max(-1, min(1, baseline compound + boost)) and lies in [-1, 1].
C15_Clamped ==
    FinancialAnalyzed =>
        LET sum == FAdd(baselineScores.compound, keywordBoost)
            one == Num(1, 1)
        IN  /\ vader_sentiment.compound
                   = IF ~AtLeast(one, sum) THEN one
                     ELSE IF ~AtLeast(sum, Neg(one)) THEN Neg(one)
                     ELSE sum
            /\ AtLeast(one, vader_sentiment.compound)
            /\ AtLeast(vader_sentiment.compound, Neg(one))

\* Baseline and boost add up to more than 1.
C15_Witness ==
    /\ FinancialAnalyzed
    /\ ~AtLeast(Num(1, 1), FAdd(baselineScores.compound, keywordBoost))
    /\ vader_sentiment.compound = Num(1, 1)

\* The positions where word stands in text.
OccurrencesOf(word, text) ==
    {j \in 1..(Len(text) - Len(word) + 1) :
        \A k \in 1..Len(word) : text[j + k - 1] = word[k]}

\* The number of occurrences of word in text, counted without overlap: the
\* size of a largest set of occurrences no two of which share a character.
CountOf(word, text) ==
    LET occ == OccurrencesOf(word, text)
        Apart(P) == \A i, j \in P : i # j => Abs(i - j) >= Len(word)
        sizes == {Cardinality(P) : P \in {Q \in SUBSET occ : Apart(Q)}}
    IN  CHOOSE n \in sizes : \A m \in sizes : m <= n

\* The occurrences of all the words of a list, each word counted on its own.
RECURSIVE TotalOf(_, _, _)
TotalOf(words, text, k) ==
    IF k > Len(words) THEN 0
    ELSE CountOf(words[k], text) + TotalOf(words, text, k + 1)

\* b is 0.1 * bullish - 0.1 * bearish up to the rounding of the at most
\* bullish + bearish + 2 operations that compute it, each on a magnitude of
\* at most (bullish + bearish) / 10:
\*   |10 * b - (bullish - bearish)| * 2^Precision
\*       <= (bullish + bearish) * (bullish + bearish + 2)
\* and exactly 0 without any occurrence.
BoostIs(b, bullish, bearish) ==
    IF bullish + bearish = 0 THEN b = Zero
    ELSE LET k == IF b[2] < 0 THEN -b[2] ELSE 0
             u == IF b[2] > 0 THEN b[2] ELSE 0
             all == bullish + bearish
         IN  Abs(10 * b[1] * Pow2(u) - (bullish - bearish) * Pow2(k))
                 <= (all * (all + 2) * Pow2(k)) \div Pow2(Precision)

\* All the occurrences of all the words of a list, overlapping ones too.
RECURSIVE TotalOverlapping(_, _, _)
TotalOverlapping(words, text, k) ==
    IF k > Len(words) THEN 0
    ELSE Cardinality(OccurrencesOf(words[k], text))
             + TotalOverlapping(words, text, k + 1)

\* C16 as stated: boost is 0.1 times the number of substring occurrences of
\* the bullish terms minus 0.1 times that of the bearish terms in the
\* lower-cased combined text, every term of a list counted on its own.
C16_Original ==
    FinancialAnalyzed =>
        LET lowerText == toLowerCase(articleTitle \o <<" ">> \o articleTitle
                                         \o <<" ">> \o articleSummary)
        IN  BoostIs(keywordBoost,
                    TotalOverlapping(financialBullishWords, lowerText, 1),
                    TotalOverlapping(financialBearishWords, lowerText, 1))

\* C16, amended: boost is 0.1 times the occurrences of the bullish terms
\* minus 0.1 times the occurrences of the bearish terms in the lower-cased
\* combined text, the occurrences of a term counted without overlap and
\* every term of a list counted on its own, so that 'bullish' counts for
\* 'bull' and for 'bullish'.
C16_Boost ==
    FinancialAnalyzed =>
        LET lowerText == toLowerCase(articleTitle \o <<" ">> \o articleTitle
                                         \o <<" ">> \o articleSummary)
        IN  BoostIs(keywordBoost,
                    TotalOf(financialBullishWords, lowerText, 1),
                    TotalOf(financialBearishWords, lowerText, 1))

\* A capitalised 'Bullish' in the title and a 'bearish' in the summary have
\* been counted: four bullish and two bearish occurrences.
C16_Witness ==
    /\ FinancialAnalyzed
    /\ articleTitle = <<"B", "u", "l", "l", "i", "s", "h">>
    /\ articleSummary = <<"b", "e", "a", "r", "i", "s", "h">>
    /\ BoostIs(keywordBoost, 4, 2)
    /\ AtLeast(keywordBoost, Tenth)

\* C17: the text scored is the title, the title again and the summary, so
\* an occurrence of a keyword in the title counts twice and one in the
\* summary once.
C17_TitleTwice ==
    FinancialAnalyzed =>
        LET inTitle == toLowerCase(articleTitle)
            inSummary == toLowerCase(articleSummary)
        IN  /\ cleanText = cleanTextOf(articleTitle \o <<" ">> \o articleTitle
                                           \o <<" ">> \o articleSummary)
            /\ BoostIs(keywordBoost,
                       2 * TotalOf(financialBullishWords, inTitle, 1)
                           + TotalOf(financialBullishWords, inSummary, 1),
                       2 * TotalOf(financialBearishWords, inTitle, 1)
                           + TotalOf(financialBearishWords, inSummary, 1))

\* The same keyword stands once in the title and once in the summary.
C17_Witness ==
    /\ FinancialAnalyzed
    /\ articleTitle = <<"b", "e", "a", "r", "i", "s", "h">>
    /\ articleSummary = articleTitle
    /\ keywordBoost # Zero

\* C18: analyzeFinancialSentiment returns the positive, negative and neutral
\* proportions of the baseline; only compound, label and color differ.
C18_Proportions ==
    FinancialAnalyzed =>
        /\ DOMAIN vader_sentiment
               = {"compound", "positive", "negative", "neutral", "label",
                  "color"}
        /\ vader_sentiment.positive = baselineScores.pos
        /\ vader_sentiment.negative = baselineScores.neg
        /\ vader_sentiment.neutral = baselineScores.neu

\* The boost has changed the compound and the label of a baseline with a
\* positive proportion.
C18_Witness ==
    /\ FinancialAnalyzed
    /\ vader_sentiment.compound # baselineScores.compound
    /\ vader_sentiment.label = "Bearish"
    /\ baselineScores.pos # Zero
    /\ baselineScores.neg = Zero

\* The number a sequence of decimal digits denotes.
RECURSIVE ValueOf(_)
ValueOf(digits) ==
    IF digits = <<>> THEN 0
    ELSE 10 * ValueOf(SubSeq(digits, 1, Len(digits) - 1))
             + (CHOOSE d \in 0..9 : DigitCharacters[d + 1] = digits[Len(digits)])

\* n tenths is a nearest number of tenths to |x|.
NearestTenths(n, x) ==
    LET k == IF x[2] < 0 THEN -x[2] ELSE 0
        u == IF x[2] > 0 THEN x[2] ELSE 0
    IN  2 * Abs(n * Pow2(k) - 10 * Abs(x[1]) * Pow2(u)) <= Pow2(k)

\* C19: the formatted score is a sign, the percentage with one decimal digit
\* and '%'; the sign is '+' for every score >= 0, 0 itself included, and '-'
\* with no '+' for every score < 0.
C19_Format ==
    Formatted =>
        LET score == vader_sentiment.compound
            n == Len(formatted)
        IN  /\ n >= 5
            /\ formatted[1] = (IF AtLeast(score, Zero) THEN "+" ELSE "-")
            /\ \A i \in 2..n : formatted[i] \notin {"+", "-"}
            /\ \A i \in 2..(n - 3) : formatted[i] \in Digits
            /\ formatted[n - 2] = "."
            /\ formatted[n - 1] \in Digits
            /\ formatted[n] = "%"
            /\ NearestTenths(
                   ValueOf(SubSeq(formatted, 2, n - 3) \o <<formatted[n - 1]>>),
                   FMul(score, Num(100, 1)))
            /\ score = Zero => formatted = <<"+", "0", ".", "0", "%">>

\* A negative score that rounds to no tenth of a percent has been formatted.
C19_Witness ==
    /\ Formatted
    /\ vader_sentiment.compound = Neg(Num(4, 10000))
    /\ formatted = <<"-", "0", ".", "0", "%">>

\* C20: the icon depends on the color only: every SentimentResult with the
\* color of the one at hand gets the icon it got, whatever its compound,
\* label and proportions, and every one with another color gets another.
C20_IconByColor ==
    IconDone =>
        \A r \in SentimentResults :
            (r.color = vader_sentiment.color) <=> (getSentimentIcon(r) = icon)

\* An icon has been given to a result whose label and color disagree.
C20_Witness ==
    /\ IconDone
    /\ vader_sentiment.color = "negative"
    /\ vader_sentiment.label = "Bullish"
    /\ icon = DownArrow

\* The cleaning removes every character of text: none of them is a word
\* character or one of . , ! ? -
AllRemoved(text) ==
    \A i \in 1..Len(text) : text[i] \notin KeptCharacters \ Whitespace

Quiescent == \A h \in Handlers : calls[h] = Null

\* The sum of pnl_amount, null counted as 0, over the stored trades of
\* account a with an id of at most n, in hundredths.
RECURSIVE StoredPnl(_, _)
StoredPnl(a, n) ==
    IF n = 0 THEN 0
    ELSE StoredPnl(a, n - 1)
             + (IF tradeRows[n] # Null /\ tradeRows[n].trading_account_id = a
                THEN OrZeroAmount(tradeRows[n].pnl_amount) ELSE 0)

\* current_balance of account a is its initial_balance plus its trades' P&L.
BalanceFollowsTrades(a) ==
    accountRows[a] # Null =>
        accountRows[a].current_balance
            = accountRows[a].initial_balance + StoredPnl(a, MaxJournalTrades)

C23_NoLostUpdate ==
    Quiescent =>
        \A a \in DOMAIN accountRows :
            accountRows[a] # Null =>
                accountRows[a].current_balance
                        - StoredPnl(a, MaxJournalTrades)
                    = accountRows[a].initial_balance

\* The row change of the call c under way is in table trades.
RowChangePersisted(c) ==
    IF c.op = "delete" THEN tradeRows[c.trade.id] = Null
    ELSE tradeRows[c.trade.id] = c.trade

\* Call h takes a step that ends it with an error message: a query fails,
\* or a message appears that was not there.
EndsInError(h) ==
    \/ \E form \in NewTradeForms : AddTradeInsert(h, form, FALSE)
    \/ AddTradeReadBalance(h, FALSE)
    \/ AddTradeWriteBalance(h, FALSE)
    \/ UpdateTradeUpdate(h, FALSE)
    \/ UpdateTradeReadBalance(h, FALSE)
    \/ UpdateTradeWriteBalance(h, FALSE)
    \/ \E i \in 1..Len(journalTrades) :
           DeleteTradeDelete(h, journalTrades[i].id, FALSE)
    \/ DeleteTradeReadBalance(h, FALSE)
    \/ DeleteTradeWriteBalance(h, FALSE)

\* C24: handleAddTrade, handleUpdateTrade and handleDeleteTrade are
\* all-or-nothing: when a call ends by setting an error message, it has
\* persisted neither its change of the trade row nor a change of the
\* account balance.
C24_AllOrNothing ==
    [][\A h \in Handlers :
          EndsInError(h) =>
              /\ tradeRows' = tradeRows
              /\ accountRows' = accountRows
              /\ calls[h] # Null => ~RowChangePersisted(calls[h])]_vars

\* The edit form is as handleEditTrade filled it from the stored trade, which
\* the page holds as it is stored.
FormUntouched ==
    /\ editingTradeId # Null
    /\ tradeRows[editingTradeId[1]] # Null
    /\ \E i \in 1..Len(journalTrades) :
           journalTrades[i] = tradeRows[editingTradeId[1]]
    /\ editTrade = editFormOf(tradeRows[editingTradeId[1]])

\* C25: handleEditTrade followed by handleUpdateTrade with no field of the
\* form changed leaves the stored trade's date, pair, position, entry_price,
\* exit_price and pnl_amount and the account balance as they were, for
\* every stored trade, also one with pnl_amount = 0 or exit_price = 0.
C25_EditRoundTrip ==
    [][(FormUntouched /\ UpdateTradeUpdate("h1", TRUE)) =>
          /\ tradeRows' = tradeRows
          /\ accountRows' = accountRows
          /\ calls'["h1"] = Null]_vars

\* The price moved in favour of the position of the row.
Favourable(row) ==
    IF row.position = "Long" THEN row.exit_price[1] > row.entry_price
    ELSE row.exit_price[1] < row.entry_price

\* The sign of the P&L of the row agrees with its direction.
SignConsistent(row) ==
    (row.exit_price # Null /\ row.exit_price[1] # 0 /\ row.pnl_amount # Null)
        => /\ row.pnl_amount[1] > 0 => Favourable(row)
           /\ row.pnl_amount[1] < 0 => ~Favourable(row)

\* C26: every trade stored by handleAddTrade or handleUpdateTrade with a
\* non-zero exit price and a P&L has a P&L whose sign agrees with its
\* direction (positive only if exit > entry for Long, exit < entry for
\* Short; negative only if not), and the balance change of the call uses
\* the stored, corrected amount.
C26_SignConsistent ==
    /\ \A id \in DOMAIN tradeRows :
           tradeRows[id] # Null => SignConsistent(tradeRows[id])
    /\ \A h \in Handlers :
           calls[h] # Null =>
               /\ calls[h].op = "add" =>
                      calls[h].amount = calls[h].trade.pnl_amount[1]
               /\ calls[h].op = "update" =>
                      \E original \in DOMAIN calls[h].trades :
                          /\ calls[h].trades[original].id = calls[h].trade.id
                          /\ calls[h].difference
                                 = pnlDifferenceOf(
                                       OrZeroAmount(calls[h].trade.pnl_amount),
                                       OrZeroAmount(
                                           calls[h].trades[original].pnl_amount))

\* A Short trade whose price rose is stored as a loss, and its call is about
\* to take the loss from the balance.
C26_Witness ==
    /\ At("h1", "add", "readBalance")
    /\ tradeRows[1] = calls["h1"].trade
    /\ tradeRows[1].position = "Short"
    /\ tradeRows[1].exit_price = Some(101)
    /\ tradeRows[1].pnl_amount = Some(-1)
    /\ calls["h1"].amount = -1

(***************************************************************************)
(* Properties of the dashboard page                                        *)
(***************************************************************************)
\* The i-th loadTrades call, made for the selected account, hands its rows
\* to setTrades.
ReplacedBySelected(i) ==
    /\ i \in 1..Len(loads)
    /\ loads[i].accountId = selectedAccount
    /\ LoadTradesResponse(i, TRUE)

\* C27: whenever trades is replaced by the trade list of the selected
\* account, an empty list included, metrics, chartData and dailyPnL are
\* recomputed from that list and keep nothing of the trades shown before.
C27_Recomputed ==
    [][\A i \in 1..MaxLoads :
          ReplacedBySelected(i) =>
              /\ metrics' = calculateMetrics(trades')
              /\ chartData' = generateChartData(trades', accounts,
                                                selectedAccount, timeframe,
                                                now, <<>>)
              /\ dailyPnL' = calculateDailyPnL(trades')]_vars

\* Every loadTrades call has returned its rows.
AllLoaded ==
    /\ loads # <<>>
    /\ \A i \in 1..Len(loads) : loads[i].state = "done"

\* C28: when the selected account is changed while an earlier loadTrades
\* call is under way, trades holds the trades of the selected account once
\* every call has returned, in whatever order the responses arrive.
C28_TradesOfSelected ==
    AllLoaded => trades = tradesTable[selectedAccount]

(***************************************************************************)
(* Properties of the team room                                             *)
(***************************************************************************)
\* C29: at most one polling timer is active at any time, and every active
\* timer was set by the mounted page for its present teamId: after an
\* unmount or a change of teamId no timer of the old teamId is active, also
\* when initializeTeamRoom was still waiting for its queries at that moment
\* and calls startPolling afterwards.
C29_OnePollingInterval ==
    /\ Cardinality(intervals) <= 1
    /\ \A iv \in intervals : iv.room = room /\ iv.teamId = teamId

(***************************************************************************)
(* Properties of the daily P&L against the metrics                         *)
(***************************************************************************)
\* Every amount of DailyTrades, and every sum of such amounts, is a multiple
\* of 2^-GridBits.
GridBits == Precision + 3

\* x is such a multiple.
OnGrid(x) == x = Zero \/ x[2] + GridBits >= 0

\* The exact value of x, in units of 2^-GridBits.
Exact(x) == x[1] * Pow2(x[2] + GridBits)

\* The pnl of the daily entries added up in the order of the entries.
DailySum(daily) == Sum([k \in 1..Len(daily) |-> daily[k].pnl])

\* The exact sum of the sizes of the completed amounts of the first k trades.
RECURSIVE ExactSize(_, _)
ExactSize(ts, k) ==
    IF k = 0 THEN 0
    ELSE ExactSize(ts, k - 1)
             + (IF ts[k].pnl_amount = Null THEN 0
                ELSE Abs(Exact(ts[k].pnl_amount)))

\* getDayTrades summed over the days of the first k daily entries.
RECURSIVE DayTradesSum(_, _, _)
DayTradesSum(ts, daily, k) ==
    IF k = 0 THEN 0
    ELSE DayTradesSum(ts, daily, k - 1) + getDayTrades(ts, daily[k].date)

\* Every number compared is a multiple of 2^-GridBits.
AllOnGrid ==
    /\ OnGrid(metrics.totalPnL)
    /\ OnGrid(DailySum(dailyPnL))
    /\ \A k \in 1..Len(trades) :
           trades[k].pnl_amount # Null => OnGrid(trades[k].pnl_amount)

\* C30 as stated: the daily entries partition the completed trades; the sum
\* of pnl over the daily entries equals totalPnL of the metrics of the same
\* list, and the completed trades counted per day sum to totalTrades.
C30_Original ==
    (DailyDone /\ metrics # NullMetrics) =>
        /\ DailySum(dailyPnL) = metrics.totalPnL
        /\ DayTradesSum(trades, dailyPnL, Len(dailyPnL)) = metrics.totalTrades

\* C30, amended: for every non-empty trade list the completed trades
\* counted per day sum to totalTrades, and the sum of pnl over the daily
\* entries equals totalPnL up to the rounding of the additions: the two
\* differ by at most 2 * n * 2^-Precision times the sum of the sizes of the
\* amounts, n being the number of trades.
C30_DailyPartition ==
    (DailyDone /\ metrics # NullMetrics) =>
        /\ AllOnGrid
        /\ DayTradesSum(trades, dailyPnL, Len(dailyPnL)) = metrics.totalTrades
        /\ Abs(Exact(DailySum(dailyPnL)) - Exact(metrics.totalPnL))
                   * Pow2(Precision)
               <= 2 * Len(trades) * ExactSize(trades, Len(trades))

\* Three completed trades on two days whose daily totals do not add up to
\* totalPnL.
C30_Witness ==
    /\ DailyDone
    /\ metrics # NullMetrics
    /\ metrics.totalTrades = 3
    /\ Len(dailyPnL) = 2
    /\ DailySum(dailyPnL) # metrics.totalPnL

====
